---------------------------- MODULE Spec2Model ----------------------------
(***************************************************************************)
(* A model of src/src/opencl_gpupreagg.h (PG-Strom GpuPreAgg device code): *)
(* the accumulator merge templates, the bitonic sort kernels and the       *)
(* preparation / local reduction / global reduction kernels.               *)
(***************************************************************************)
EXTENDS Integers, Sequences, FiniteSets, TLC

VARIABLES
    calc,        \* one invocation of an accumulator merge template
    srt,         \* the sort fallback: rindex, the entries the last kernel touched,
                 \* the host's position, the launch geometry
    cfg,         \* the invocation's configuration (input batch, roles, capacities)
    stage,       \* the kernel the host has launched
    status,      \* kern_gpupreagg.status
    krowmap,     \* kern_row_map: nvalids and rindex[]
    kds_src,     \* the source of reduction (output of gpupreagg_preparation)
    kds_dst,     \* the destination of local reduction, reduced in place globally
    g_hashslot,  \* the global array of pagg_hashslot
    wk,          \* per work-item private variables and position
    grp          \* per work-group __local variables

calcVars == <<calc>>
sortVars == <<srt>>
pipeVars == <<cfg, stage, status, krowmap, kds_src, kds_dst, g_hashslot, wk, grp>>
vars == <<calc, srt, cfg, stage, status, krowmap, kds_src, kds_dst, g_hashslot, wk, grp>>

(***************************************************************************)
(* Error codes.  Their numeric values live in opencl_common.h; only their  *)
(* identity matters here.                                                  *)
(***************************************************************************)
StromError_Success == "Success"
StromError_CpuReCheck == "CpuReCheck"
StromError_DataStoreCorruption == "DataStoreCorruption"
StromError_DataStoreNoSpace == "DataStoreNoSpace"

\* STROM_SET_ERROR(errcode, code): record `code` unless an error is already
\* recorded (the first error wins).
STROM_SET_ERROR(errcode, code) ==
    IF errcode = StromError_Success THEN code ELSE errcode

(***************************************************************************)
(* Machine integers.  A scalar of k bytes is a sequence of k/2 digits of   *)
(* 16 bits, least significant first, in two's complement, so that the      *)
(* 16, 32 and 64 bit accumulators keep their true widths.                  *)
(***************************************************************************)
SizeofShort == 2
SizeofInt == 4
SizeofLong == 8

Base == 2^16
HalfBase == 2^15
NDigits(bytes) == bytes \div 2

IsNeg(v) == v[Len(v)] >= HalfBase

\* conversion to a wider signed type
SignExtend(v, n) ==
    [i \in 1..n |-> IF i <= Len(v) THEN v[i]
                    ELSE IF IsNeg(v) THEN Base - 1 ELSE 0]

\* conversion to a narrower type keeps the low digits
Truncate(v, n) == [i \in 1..n |-> v[i]]

RECURSIVE Carry(_, _, _)
\* the carry into digit i of x + y
Carry(x, y, i) ==
    IF i = 1 THEN 0
    ELSE (x[i-1] + y[i-1] + Carry(x, y, i-1)) \div Base

\* x + y of two scalars of the same width, wrapped to that width
AddWrap(x, y) ==
    [i \in 1..Len(x) |-> (x[i] + y[i] + Carry(x, y, i)) % Base]

\* the mathematical sum of x and y lies in the signed range of their width
InRangeSum(x, y) ==
    LET n == Len(x)
        s == AddWrap(SignExtend(x, n + 1), SignExtend(y, n + 1))
    IN  SignExtend(Truncate(s, n), n + 1) = s

RECURSIVE LessFrom(_, _, _)
LessFrom(x, y, i) ==
    IF i = 0 THEN FALSE
    ELSE IF x[i] # y[i] THEN x[i] < y[i]
    ELSE LessFrom(x, y, i - 1)

\* signed x < y for two scalars of the same width
Less(x, y) ==
    IF IsNeg(x) # IsNeg(y) THEN IsNeg(x) ELSE LessFrom(x, y, Len(x))

\* the usual arithmetic conversions: an operand narrower than int is
\* promoted to int before + is applied
Promote(v) ==
    IF Len(v) < NDigits(SizeofInt) THEN SignExtend(v, NDigits(SizeofInt)) ELSE v

\* (x) + (y) as the expression is evaluated
CAdd(x, y) == AddWrap(Promote(x), Promote(y))

\* a small integer as a scalar of k bytes, and back
FromInt(z, bytes) ==
    [i \in 1..NDigits(bytes) |->
        IF i = 1 THEN (IF z < 0 THEN Base + z ELSE z)
        ELSE IF z < 0 THEN Base - 1 ELSE 0]

ToInt(v) == IF IsNeg(v) THEN v[1] - Base ELSE v[1]

MaxOf(bytes) ==
    [i \in 1..NDigits(bytes) |-> IF i = NDigits(bytes) THEN HalfBase - 1 ELSE Base - 1]

MinOf(bytes) ==
    [i \in 1..NDigits(bytes) |-> IF i = NDigits(bytes) THEN HalfBase ELSE 0]

(***************************************************************************)
(* Accumulator merge templates                                             *)
(***************************************************************************)
\* ((x) < 0) == ((y) < 0)) && (((x) + (y) < 0) != ((x) < 0))
CHECK_OVERFLOW_INT(x, y) ==
    (IsNeg(x) = IsNeg(y)) /\ (IsNeg(CAdd(x, y)) # IsNeg(x))

max(x, y) == IF Less(x, y) THEN y ELSE x
min(x, y) == IF Less(y, x) THEN y ELSE x

\* a Max merge that takes the greater value whether or not the accumulator
\* is null
PMAX_IgnoresNullAccum(errcode, accum, newval) ==
    IF ~newval.isnull
    THEN [accum |-> [isnull |-> FALSE, val |-> max(accum.val, newval.val)],
          errcode |-> errcode, newval |-> newval]
    ELSE [accum |-> accum, errcode |-> errcode, newval |-> newval]

\* a Sum merge that leaves a null accumulator null
PSUM_KeepsNullAccum(errcode, accum, newval) ==
    IF ~accum.isnull /\ ~newval.isnull
    THEN [accum |-> [isnull |-> FALSE,
                     val |-> Truncate(CAdd(accum.val, newval.val), Len(accum.val))],
          errcode |-> IF CHECK_OVERFLOW_INT(accum.val, newval.val)
                      THEN STROM_SET_ERROR(errcode, StromError_CpuReCheck)
                      ELSE errcode,
          newval |-> newval]
    ELSE [accum |-> accum, errcode |-> errcode, newval |-> newval]

\* A merge yields the accumulator, the error code and newval, which no
\* statement of the templates assigns.
GPUPREAGG_AGGCALC_PMAX_TEMPLATE(errcode, accum, newval) ==
    IF ~newval.isnull
    THEN [accum |-> [isnull |-> FALSE,
                     val |-> IF accum.isnull THEN newval.val
                             ELSE max(accum.val, newval.val)],
          errcode |-> errcode, newval |-> newval]
    ELSE [accum |-> accum, errcode |-> errcode, newval |-> newval]

\* a Min merge that takes every non-null newval
PMIN_TakesNewval(errcode, accum, newval) ==
    IF ~newval.isnull
    THEN [accum |-> [isnull |-> FALSE, val |-> newval.val],
          errcode |-> errcode, newval |-> newval]
    ELSE [accum |-> accum, errcode |-> errcode, newval |-> newval]

GPUPREAGG_AGGCALC_PMIN_TEMPLATE(errcode, accum, newval) ==
    IF ~newval.isnull
    THEN [accum |-> [isnull |-> FALSE,
                     val |-> IF accum.isnull THEN newval.val
                             ELSE min(accum.val, newval.val)],
          errcode |-> errcode, newval |-> newval]
    ELSE [accum |-> accum, errcode |-> errcode, newval |-> newval]

PSUM_SkipAddOnOverflow(errcode, accum, newval) ==
    IF ~accum.isnull
    THEN IF ~newval.isnull
         THEN IF CHECK_OVERFLOW_INT(accum.val, newval.val)
              THEN [accum |-> accum,
                    errcode |-> STROM_SET_ERROR(errcode, StromError_CpuReCheck),
                    newval |-> newval]
              ELSE [accum |-> [isnull |-> FALSE,
                               val |-> Truncate(CAdd(accum.val, newval.val),
                                                Len(accum.val))],
                    errcode |-> errcode, newval |-> newval]
         ELSE [accum |-> accum, errcode |-> errcode, newval |-> newval]
    ELSE IF ~newval.isnull
         THEN [accum |-> [isnull |-> newval.isnull, val |-> newval.val],
               errcode |-> errcode, newval |-> newval]
         ELSE [accum |-> accum, errcode |-> errcode, newval |-> newval]

GPUPREAGG_AGGCALC_PSUM_TEMPLATE(errcode, accum, newval) ==
    IF ~accum.isnull
    THEN IF ~newval.isnull
         THEN [accum |-> [isnull |-> FALSE,
                          \* accum->FIELD_val += newval->FIELD_val
                          val |-> Truncate(CAdd(accum.val, newval.val),
                                           Len(accum.val))],
               errcode |-> IF CHECK_OVERFLOW_INT(accum.val, newval.val)
                           THEN STROM_SET_ERROR(errcode, StromError_CpuReCheck)
                           ELSE errcode,
               newval |-> newval]
         ELSE [accum |-> accum, errcode |-> errcode, newval |-> newval]
    ELSE IF ~newval.isnull
         THEN [accum |-> [isnull |-> newval.isnull, val |-> newval.val],
               errcode |-> errcode, newval |-> newval]
         ELSE [accum |-> accum, errcode |-> errcode, newval |-> newval]

AggOps == {"PMAX", "PMIN", "PSUM"}

\* gpupreagg_aggcalc: the merge of one aggregate, by operator
AggCalc(op, errcode, accum, newval) ==
    CASE op = "PMAX" -> GPUPREAGG_AGGCALC_PMAX_TEMPLATE(errcode, accum, newval)
      [] op = "PMIN" -> GPUPREAGG_AGGCALC_PMIN_TEMPLATE(errcode, accum, newval)
      [] op = "PSUM" -> GPUPREAGG_AGGCALC_PSUM_TEMPLATE(errcode, accum, newval)

(***************************************************************************)
(* One merge, on operands at and around the limits of each width           *)
(***************************************************************************)
\* how far from 0 and from the limits of a width the operands are drawn
Near == 2

ScalarSizes == {SizeofShort, SizeofInt, SizeofLong}

Operands(bytes) ==
    {FromInt(z, bytes) : z \in (0 - Near)..Near}
    \cup {AddWrap(MaxOf(bytes), FromInt(0 - z, bytes)) : z \in 0..(Near - 1)}
    \cup {AddWrap(MinOf(bytes), FromInt(z, bytes)) : z \in 0..(Near - 1)}

Datums(bytes) ==
    [isnull : {FALSE}, val : Operands(bytes)]
    \cup {[isnull |-> TRUE, val |-> FromInt(0, bytes)],
          [isnull |-> TRUE, val |-> FromInt(1, bytes)]}

CalcIdle == [pc |-> "idle"]

CalcInit ==
    \E op \in AggOps, bytes \in ScalarSizes :
      \E a \in Datums(bytes), n \in Datums(bytes) :
        \E e \in {StromError_Success, StromError_DataStoreCorruption} :
          calc = [pc |-> "call", op |-> op, bytes |-> bytes,
                  accum0 |-> a, errcode0 |-> e, newval0 |-> n,
                  accum |-> a, newval |-> n, errcode |-> e]

\* the merge is applied to (accum, newval)
CalcMerge ==
    /\ calc.pc = "call"
    /\ LET r == AggCalc(calc.op, calc.errcode, calc.accum, calc.newval)
       IN  calc' = [calc EXCEPT !.pc = "done", !.accum = r.accum,
                                !.newval = r.newval, !.errcode = r.errcode]

\* Several merges into one owner: the accumulators of the work-items that
\* found the owner are merged into the owner's, in the order in which the
\* work-items get to it (lines 675-681 and 839-843)
Mergers == 2

\* the accumulators of a fold: small values, the limits of the width, null
FoldDatums(bytes) ==
    {d \in Datums(bytes) :
        \/ d.isnull
        \/ d.val \in {FromInt(z, bytes) : z \in (1 - Near)..(Near - 1)}
        \/ d.val \in {MaxOf(bytes), MinOf(bytes)}}

FoldInit ==
    \E op \in AggOps, bytes \in ScalarSizes :
      \E a \in FoldDatums(bytes), ns \in [1..Mergers -> FoldDatums(bytes)] :
        calc = [pc |-> "fold", op |-> op, bytes |-> bytes,
                accum0 |-> a, newvals |-> ns, left |-> 1..Mergers,
                accum |-> a, errcode |-> StromError_Success]

\* the merge of one of the accumulators not yet merged
FoldMerge ==
    /\ calc.pc = "fold"
    /\ \E i \in calc.left :
          LET r == AggCalc(calc.op, calc.errcode, calc.accum, calc.newvals[i])
          IN  calc' = [calc EXCEPT !.pc = IF calc.left = {i} THEN "done" ELSE "fold",
                                   !.left = @ \ {i},
                                   !.accum = r.accum,
                                   !.errcode = r.errcode]

(***************************************************************************)
(* Sort fallback: gpupreagg_bitonic_local / _step / _merge                 *)
(***************************************************************************)
\* rows of the sorted batch, key values and work-group sizes explored
MaxSortRows == 6
MaxSortKey == 1
LocalSizes == {1, 2, 4}

\* gpupreagg_keycomp on the batch being sorted: -1, 0 or 1
SortKeycomp(keys, x, y) ==
    IF keys[x] < keys[y] THEN -1 ELSE IF keys[x] > keys[y] THEN 1 ELSE 0

\* idx0 of work-item id for a unit of unitSize entries
Idx0(id, unitSize) ==
    ((id \div (unitSize \div 2)) * unitSize) + (id % (unitSize \div 2))

Idx1_NeverReversing(idx0, unitSize, reversing) == idx0 + (unitSize \div 2)

\* idx1: the mirror of idx0 inside its unit, (idx0 & ~unitMask) | (~idx0 & unitMask),
\* when reversing, else idx0 + halfUnitSize
Idx1(idx0, unitSize, reversing) ==
    IF reversing
    THEN (idx0 - (idx0 % unitSize)) + (unitSize - 1 - (idx0 % unitSize))
    ELSE idx0 + (unitSize \div 2)

\* <<idx0, idx1>> of the work-items 0..nworkers-1 that pass the guard of one
\* step, idx1 < limit, and so read arr[idx0] and arr[idx1]
ExchangePairs(nworkers, unitSize, reversing, limit) ==
    {pr \in {<<Idx0(id, unitSize), Idx1(Idx0(id, unitSize), unitSize, reversing)>> :
                id \in 0..(nworkers - 1)} : pr[2] < limit}

\* a step that writes pos1 to arr[idx0] and leaves arr[idx1]
CompareExchange_CopyOnly(arr, nworkers, unitSize, reversing, limit, keys) ==
    LET swaps == {pr \in ExchangePairs(nworkers, unitSize, reversing, limit) :
                    0 < SortKeycomp(keys, arr[pr[1]], arr[pr[2]])}
    IN  [p \in DOMAIN arr |->
            IF \E pr \in swaps : pr[1] = p
            THEN arr[(CHOOSE pr \in swaps : pr[1] = p)[2]]
            ELSE arr[p]]

\* The compare-exchanges of one step by work-items 0..nworkers-1 on arr: a
\* work-item whose idx1 is below limit swaps arr[idx0] and arr[idx1] when
\* keycomp says arr[idx0] is the greater.
CompareExchange(arr, nworkers, unitSize, reversing, limit, keys) ==
    LET swaps == {pr \in ExchangePairs(nworkers, unitSize, reversing, limit) :
                    0 < SortKeycomp(keys, arr[pr[1]], arr[pr[2]])}
    IN  [p \in DOMAIN arr |->
            IF \E pr \in swaps : pr[1] = p
            THEN arr[(CHOOSE pr \in swaps : pr[1] = p)[2]]
            ELSE IF \E pr \in swaps : pr[2] = p
            THEN arr[(CHOOSE pr \in swaps : pr[2] = p)[1]]
            ELSE arr[p]]

RECURSIVE SortUnits(_, _, _, _, _, _)
\* for (unitSize = blockSize; 2 <= unitSize; unitSize /= 2), a barrier after each
SortUnits(localIdx, blockSize, unitSize, localSize, localEntry, keys) ==
    IF unitSize < 2 THEN localIdx
    ELSE SortUnits(CompareExchange(localIdx, localSize, unitSize,
                                   unitSize = blockSize, localEntry, keys),
                   blockSize, unitSize \div 2, localSize, localEntry, keys)

RECURSIVE SortBlocks(_, _, _, _, _)
\* for (blockSize = 2; blockSize <= prtSize; blockSize *= 2)
SortBlocks(localIdx, blockSize, localSize, localEntry, keys) ==
    IF blockSize > 2 * localSize THEN localIdx
    ELSE SortBlocks(SortUnits(localIdx, blockSize, blockSize, localSize, localEntry, keys),
                    blockSize * 2, localSize, localEntry, keys)

\* localEntry of partition prtID
LocalEntry(prtID, localSize, nrows) ==
    LET prtSize == 2 * localSize
        prtPos == prtID * prtSize
    IN  IF prtPos + prtSize < nrows THEN prtSize ELSE nrows - prtPos

\* the entries of rindex that the work-items of a partition kernel load or
\* write back: prtPos + localID and prtPos + localSize + localID, each when
\* its offset in the partition is below localEntry
PartitionEntries(buf, nrows, localSize) ==
    {i \in buf :
        LET prtSize == 2 * localSize
            prtID == i \div prtSize
        IN  \E localID \in 0..(localSize - 1) :
                \/ /\ i = prtID * prtSize + localID
                   /\ localID < LocalEntry(prtID, localSize, nrows)
                \/ /\ i = prtID * prtSize + localSize + localID
                   /\ localSize + localID < LocalEntry(prtID, localSize, nrows)}

\* gpupreagg_bitonic_local, all work-groups: each partition of 2 x localSize
\* entries gets the identity row index, sorted, and is written to rindex
gpupreagg_bitonic_local(rindex, nrows, localSize, keys) ==
    [i \in DOMAIN rindex |->
        LET prtSize == 2 * localSize
            prtID == i \div prtSize
            prtPos == prtID * prtSize
            localEntry == LocalEntry(prtID, localSize, nrows)
            localIdx == [p \in 0..(prtSize - 1) |->
                            IF p < localEntry THEN prtPos + p ELSE -1]
        IN  IF i \in PartitionEntries(DOMAIN rindex, nrows, localSize)
            THEN SortBlocks(localIdx, 2, localSize, localEntry, keys)[i - prtPos]
            ELSE rindex[i]]

\* gpupreagg_bitonic_step launched with work_sz work-items
gpupreagg_bitonic_step(rindex, bitonic_unitsz, nrows, work_sz, keys) ==
    LET reversing == bitonic_unitsz < 0
        unitsz == IF bitonic_unitsz < 0 THEN 0 - bitonic_unitsz ELSE bitonic_unitsz
    IN  CompareExchange(rindex, work_sz, unitsz, reversing, nrows, keys)

\* gpupreagg_bitonic_merge, all work-groups: each partition is loaded from
\* rindex, merged with units prtSize, prtSize/2 .. 2 and written back
gpupreagg_bitonic_merge(rindex, nrows, localSize, keys) ==
    [i \in DOMAIN rindex |->
        LET prtSize == 2 * localSize
            prtID == i \div prtSize
            prtPos == prtID * prtSize
            localEntry == LocalEntry(prtID, localSize, nrows)
            localIdx == [p \in 0..(prtSize - 1) |->
                            IF p < localEntry THEN rindex[prtPos + p] ELSE -1]
        \* blockSize 0: no unit of the merge is a reversing one
        IN  IF i \in PartitionEntries(DOMAIN rindex, nrows, localSize)
            THEN SortUnits(localIdx, 0, prtSize, localSize, localEntry, keys)[i - prtPos]
            ELSE rindex[i]]

\* the entries of rindex that the work-items of gpupreagg_bitonic_step read
StepEntries(bitonic_unitsz, nrows, work_sz) ==
    LET reversing == bitonic_unitsz < 0
        unitsz == IF bitonic_unitsz < 0 THEN 0 - bitonic_unitsz ELSE bitonic_unitsz
    IN  UNION {{pr[1], pr[2]} : pr \in ExchangePairs(work_sz, unitsz, reversing, nrows)}

\* the entries of the rindex buffer: those of every partition that holds a
\* row, the last partition in full
SortRoom(nrows, localSize) ==
    ((nrows + 2 * localSize - 1) \div (2 * localSize)) * (2 * localSize)

\* The host's launch of one step: enough work-items for every unit that
\* holds a row.
StepWorkSize(nrows, unitsz) == (((nrows + unitsz - 1) \div unitsz) * unitsz) \div 2

SortIdle == [pc |-> "idle"]

SortInit ==
    \E n \in 1..MaxSortRows, localSize \in LocalSizes :
      \E keys \in [0..(n - 1) -> 0..MaxSortKey] :
        srt = [pc |-> "local", nrows |-> n, localSize |-> localSize, keys |-> keys,
               rindex |-> [i \in 0..(SortRoom(n, localSize) - 1) |-> -1],
               touched |-> {},
               block |-> 0, unit |-> 0]

\* what follows a pass whose sorted runs are `sorted` long: the first
\* (reversing) step of the next block, or the end
AfterRuns(s, sorted) ==
    IF sorted >= s.nrows
    THEN [s EXCEPT !.pc = "done", !.block = 0, !.unit = 0]
    ELSE [s EXCEPT !.pc = "step", !.block = 2 * sorted, !.unit = 2 * sorted]

SortLocal ==
    /\ srt.pc = "local"
    /\ srt' = AfterRuns([srt EXCEPT
                    !.rindex = gpupreagg_bitonic_local(srt.rindex, srt.nrows,
                                                       srt.localSize, srt.keys),
                    !.touched = PartitionEntries(DOMAIN srt.rindex, srt.nrows,
                                                 srt.localSize)],
                 2 * srt.localSize)

\* one launch of gpupreagg_bitonic_step; units above the partition size are
\* the host's, the partition size and below are the merge kernel's
SortStep ==
    /\ srt.pc = "step"
    /\ LET arg == IF srt.unit = srt.block THEN 0 - srt.unit ELSE srt.unit
           r == gpupreagg_bitonic_step(srt.rindex, arg, srt.nrows,
                                       StepWorkSize(srt.nrows, srt.unit), srt.keys)
       IN  srt' = [srt EXCEPT !.rindex = r,
                              !.touched = StepEntries(arg, srt.nrows,
                                              StepWorkSize(srt.nrows, srt.unit)),
                              !.unit = srt.unit \div 2,
                              !.pc = IF srt.unit \div 2 > 2 * srt.localSize
                                     THEN "step" ELSE "merge"]

SortMerge ==
    /\ srt.pc = "merge"
    /\ srt' = AfterRuns([srt EXCEPT
                    !.rindex = gpupreagg_bitonic_merge(srt.rindex, srt.nrows,
                                                       srt.localSize, srt.keys),
                    !.touched = PartitionEntries(DOMAIN srt.rindex, srt.nrows,
                                                 srt.localSize)],
                 srt.block)

(***************************************************************************)
(* The kernels' data: kern_data_store, kern_row_map, pagg_hashslot         *)
(***************************************************************************)
GPUPREAGG_FIELD_IS_NULL == 0
GPUPREAGG_FIELD_IS_GROUPKEY == 1
GPUPREAGG_FIELD_IS_AGGFUNC == 2

\* (cl_uint)(0xffffffff), the index of an empty slot and of a work-item
\* without a row
ALL_ONES == -1

EmptySlot == [hash |-> 0, index |-> ALL_ONES]

\* the content of memory the kernel reads without having written it: a
\* datum that is no scalar of any width
Garbage == [isnull |-> FALSE, val |-> <<>>]

\* columns of the reduction's batches, and the work-items' geometry
Cols(c) == 0..(c.ncols - 1)
GlobalSize(c) == c.ngroups * c.localSize
WorkItems(c) == 0..(GlobalSize(c) - 1)
WorkGroups(c) == 0..(c.ngroups - 1)
get_local_id(c, w) == w % c.localSize
get_group_id(c, w) == w \div c.localSize
Members(c, g) == {w \in WorkItems(c) : get_group_id(c, w) = g}

\* a row of a kern_data_store that nothing has written yet
NoRow(c) == [a \in Cols(c) |-> Garbage]

\* arithmetic_stairlike_add: the sum of the flags of the work-items of the
\* group with a smaller local id, and (total) the sum over the whole group
StairlikeOffset(c, w, flag) ==
    Cardinality({v \in Members(c, get_group_id(c, w)) : v < w /\ flag[v]})
StairlikeTotal(c, g, flag) == Cardinality({v \in Members(c, g) : flag[v]})

GroupKeyCols(c) == {a \in Cols(c) : c.atts[a] = GPUPREAGG_FIELD_IS_GROUPKEY}
AggCols(c) == {a \in Cols(c) : c.atts[a] = GPUPREAGG_FIELD_IS_AGGFUNC}

\* column a of row x, and the batch with that column written
ColOf(kds, x, a) ==
    IF x \in DOMAIN kds.rows THEN kds.rows[x][a] ELSE Garbage
SetCol(c, kds, x, a, d) ==
    [kds EXCEPT !.rows[x] = [b \in Cols(c) |-> IF b = a THEN d ELSE ColOf(kds, x, b)]]

\* a row whose grouping keys the kernel may read: something has written them
Readable(c, kds, x) == \A a \in GroupKeyCols(c) : ColOf(kds, x, a) # Garbage

\* gpupreagg_hashvalue: the hashes row x's grouping keys can have (one,
\* unless the row was never written).  Keys 1 and 2 have the same hash; key 3
\* shares their slot in a table of 4 slots only.
HashOfKey(k) == IF k = 3 THEN 9 ELSE 5
Keys == 1..3
gpupreagg_hashvalue(c, kds, x) ==
    IF GroupKeyCols(c) = {} THEN {7}
    ELSE IF Readable(c, kds, x)
    THEN {HashOfKey(ToInt(ColOf(kds, x, CHOOSE a \in GroupKeyCols(c) : TRUE).val))}
    ELSE {HashOfKey(k) : k \in Keys}

\* gpupreagg_keycomp: the results the comparison of rows x and y on the
\* grouping keys can have; reading a row that was never written, or one
\* outside the buffer, can compare either way
gpupreagg_keycomp(c, kds, x, y) ==
    IF Readable(c, kds, x) /\ Readable(c, kds, y)
    THEN IF \A a \in GroupKeyCols(c) : ColOf(kds, x, a) = ColOf(kds, y, a)
         THEN {0} ELSE {1}
    ELSE {0, 1}

\* gpupreagg_projection: the input row in the form of the running total
gpupreagg_projection(c, rowidx_in) ==
    [a \in Cols(c) |->
        [isnull |-> FALSE,
         val |-> FromInt(IF a = 0 THEN c.rows_in[rowidx_in].key
                         ELSE c.rows_in[rowidx_in].val, SizeofShort)]]

\* gpupreagg_qual_eval: the qualifier's verdict on an input row and the
\* error code it leaves
gpupreagg_qual_eval(c, errcode, kds_index) ==
    CASE c.rows_in[kds_index].qual = "pass" -> [ok |-> TRUE, errcode |-> errcode]
      [] c.rows_in[kds_index].qual = "fail" -> [ok |-> FALSE, errcode |-> errcode]
      [] OTHER -> [ok |-> FALSE,
                   errcode |-> STROM_SET_ERROR(errcode, StromError_DataStoreCorruption)]

\* kern_writeback_error_status: the error of the work-group goes to the
\* status unless the status already holds one
GroupErrors(c, g) ==
    {wk[w].errcode : w \in Members(c, g)} \ {StromError_Success}

(***************************************************************************)
(* gpupreagg_preparation                                                   *)
(***************************************************************************)
\* the work-items' private variables when a kernel starts
WorkItemStart(pc) ==
    [pc |-> pc, errcode |-> StromError_Success, kds_index |-> 0, offset |-> 0,
     curr_index |-> 0, hash_value |-> 0, index |-> 0, owner_index |-> ALL_ONES, dest_index |-> 0,
     attnum |-> 0]

GroupStart ==
    [base |-> 0, nitems |-> 0, attnum |-> 0, l_datum |-> <<>>, overrun |-> FALSE]

AllAt(c, g, pc) == \A w \in Members(c, g) : wk[w].pc = pc

\* a row mapping that takes the work-item's global id whatever the row map
PrepRowOf_Identity(c, w) ==
    LET q == IF w < c.nitems_in
             THEN gpupreagg_qual_eval(c, StromError_Success, w)
             ELSE [ok |-> FALSE, errcode |-> StromError_Success]
    IN  [kds_index |-> IF w < c.nitems_in /\ q.ok THEN w ELSE c.nitems_in,
         errcode |-> q.errcode]

\* lines 417-429: the row of a work-item, and the qualifier
PrepRowOf(c, w) ==
    LET nitems_in == c.nitems_in
        first == IF krowmap.nvalids < 0 THEN w
                 ELSE IF w < krowmap.nvalids THEN krowmap.rindex[w]
                 ELSE nitems_in
        q == IF first < nitems_in
             THEN gpupreagg_qual_eval(c, StromError_Success, first)
             ELSE [ok |-> FALSE, errcode |-> StromError_Success]
    IN  [kds_index |-> IF first < nitems_in /\ ~q.ok THEN nitems_in ELSE first,
         errcode |-> q.errcode]

\* lines 417-446: every work-item of group g finds its row, the group counts
\* its rows (stairlike add) and work-item 0 reserves them with one
\* atomic_add on kds_src->nitems; then the barrier
PrepReserve(g) ==
    /\ stage = "preparation"
    /\ AllAt(cfg, g, "start")
    /\ LET nitems_in == cfg.nitems_in
           valid == [w \in WorkItems(cfg) |-> PrepRowOf(cfg, w).kds_index < nitems_in]
           nitems == StairlikeTotal(cfg, g, valid)
       IN  /\ wk' = [w \in WorkItems(cfg) |->
                       IF w \in Members(cfg, g)
                       THEN [wk[w] EXCEPT !.pc = "check",
                                          !.kds_index = PrepRowOf(cfg, w).kds_index,
                                          !.errcode = PrepRowOf(cfg, w).errcode,
                                          !.offset = StairlikeOffset(cfg, w, valid)]
                       ELSE wk[w]]
           /\ grp' = [grp EXCEPT ![g].nitems = nitems,
                                 ![g].base = IF nitems > 0 THEN kds_src.nitems ELSE 0]
           /\ kds_src' = [kds_src EXCEPT !.nitems = @ + nitems]
    /\ UNCHANGED <<calcVars, sortVars, cfg, stage, status, krowmap, kds_dst, g_hashslot>>

\* an out of range check on the base alone
PrepOutOfRange_BaseOnly(c, g) == grp[g].base > c.src_nrooms

\* line 449: base + nitems > kds_src->nrooms
PrepOutOfRange(c, g) == grp[g].base + grp[g].nitems > c.src_nrooms

\* a projection that takes the stairlike offset for the row of kds_src
PrepDestIndex_NoBase(g, w) == wk[w].offset

\* line 464: base + offset, the row of kds_src that work-item w of group g
\* projects its row to
PrepDestIndex(g, w) == grp[g].base + wk[w].offset

\* lines 448-465: out of range check, then the projection of each row to
\* kds_src row base + offset
PrepProject(g) ==
    /\ stage = "preparation"
    /\ AllAt(cfg, g, "check")
    /\ IF PrepOutOfRange(cfg, g)
       THEN /\ wk' = [w \in WorkItems(cfg) |->
                        IF w \in Members(cfg, g)
                        THEN [wk[w] EXCEPT !.pc = "out",
                                           !.errcode = StromError_DataStoreNoSpace]
                        ELSE wk[w]]
            /\ UNCHANGED kds_src
       ELSE /\ wk' = [w \in WorkItems(cfg) |->
                        IF w \in Members(cfg, g) THEN [wk[w] EXCEPT !.pc = "out"]
                        ELSE wk[w]]
            /\ kds_src' = [kds_src EXCEPT !.rows =
                  [r \in DOMAIN kds_src.rows |->
                     IF \E w \in Members(cfg, g) :
                           /\ wk[w].kds_index < cfg.nitems_in
                           /\ PrepDestIndex(g, w) = r
                     THEN gpupreagg_projection(cfg,
                             wk[CHOOSE w \in Members(cfg, g) :
                                   /\ wk[w].kds_index < cfg.nitems_in
                                   /\ PrepDestIndex(g, w) = r].kds_index)
                     ELSE kds_src.rows[r]]]
    /\ UNCHANGED <<calcVars, sortVars, cfg, stage, status, krowmap, kds_dst, g_hashslot, grp>>

\* line 468: kern_writeback_error_status
PrepWriteback(g) ==
    /\ stage = "preparation"
    /\ AllAt(cfg, g, "out")
    /\ wk' = [w \in WorkItems(cfg) |->
                IF w \in Members(cfg, g) THEN [wk[w] EXCEPT !.pc = "exit"] ELSE wk[w]]
    /\ IF status = StromError_Success /\ GroupErrors(cfg, g) # {}
       THEN \E e \in GroupErrors(cfg, g) : status' = e
       ELSE UNCHANGED status
    /\ UNCHANGED <<calcVars, sortVars, cfg, stage, krowmap, kds_src, kds_dst, g_hashslot, grp>>

(***************************************************************************)
(* gpupreagg_local_reduction                                               *)
(*                                                                         *)
(* The kernel names variables it does not declare; they are read as the    *)
(* variables they stand for: errcode is the work-item's error code, kds is *)
(* kds_src, cindex is attnum, gpagg_atts is the field-role table.  The     *)
(* label of `goto out' does not exist in the kernel: the jump is the end   *)
(* of the kernel, which has no kern_writeback_error_status call.           *)
(***************************************************************************)
\* gpupreagg_local_calc / gpupreagg_global_calc: the merge of newval into
\* accum by the aggregate's operator, taken in one step (the steps of its
\* read and its write are those of PhaseMergeRead and PhaseMergeWrite); an
\* operand that was never written gives an accumulator that means nothing
MergeDatum(op, errcode, accum, newval) ==
    IF accum = Garbage \/ newval = Garbage
    THEN [accum |-> Garbage, errcode |-> errcode]
    ELSE AggCalc(op, errcode, accum, newval)

\* the scalar union of a pagg_datum after a write of v to its member of
\* v's width: the digits above v keep what they held
UnionWrite(old, v) ==
    [i \in 1..(IF Len(old) > Len(v) THEN Len(old) ELSE Len(v)) |->
        IF i <= Len(v) THEN v[i] ELSE old[i]]

\* the member of n digits of the scalar union (the union as it is when it
\* holds fewer digits than that)
UnionRead(val, n) == IF Len(val) >= n THEN Truncate(val, n) ELSE val

\* gpupreagg_data_load: the accumulator and error code after loading
\* column colidx of row rowidx.  A null cell (kern_get_datum gives no
\* address) sets isnull and leaves the union; else the cell is written to
\* the union's member of the column's width (a cell that nothing has
\* written gives an accumulator that means nothing)
gpupreagg_data_load(c, pdatum, errcode, kds, colidx, rowidx) ==
    IF colidx >= c.ncols
    THEN [datum |-> pdatum,
          errcode |-> STROM_SET_ERROR(errcode, StromError_DataStoreCorruption)]
    ELSE IF c.attlen[colidx] \in {SizeofShort, SizeofInt, SizeofLong}
    THEN LET cell == ColOf(kds, rowidx, colidx)
         IN  [datum |-> IF cell = Garbage
                        THEN Garbage
                        ELSE IF cell.isnull
                        THEN [pdatum EXCEPT !.isnull = TRUE]
                        ELSE [isnull |-> FALSE,
                              val |-> UnionWrite(pdatum.val, cell.val)],
              errcode |-> errcode]
    ELSE [datum |-> pdatum,
          errcode |-> STROM_SET_ERROR(errcode, StromError_DataStoreCorruption)]

\* a store that does not look at the column's width
gpupreagg_data_store_AnyWidth(c, pdatum, errcode, kds, colidx, rowidx) ==
    IF colidx >= c.ncols
    THEN [kds |-> kds,
          errcode |-> STROM_SET_ERROR(errcode, StromError_DataStoreCorruption)]
    ELSE [kds |-> SetCol(c, kds, rowidx, colidx, pdatum), errcode |-> errcode]

\* gpupreagg_data_store: the batch and error code after storing the
\* accumulator to column colidx of row rowidx.  pg_intN_vstore gets the
\* null flag and the union's member of the column's width; a null sets the
\* cell's null flag and leaves its value
gpupreagg_data_store(c, pdatum, errcode, kds, colidx, rowidx) ==
    IF colidx >= c.ncols
    THEN [kds |-> kds,
          errcode |-> STROM_SET_ERROR(errcode, StromError_DataStoreCorruption)]
    ELSE IF c.attlen[colidx] \in {SizeofShort, SizeofInt, SizeofLong}
    THEN [kds |-> SetCol(c, kds, rowidx, colidx,
                     IF pdatum.isnull
                     THEN [isnull |-> TRUE, val |-> ColOf(kds, rowidx, colidx).val]
                     ELSE [isnull |-> FALSE,
                           val |-> UnionRead(pdatum.val,
                                             NDigits(c.attlen[colidx]))]),
          errcode |-> errcode]
    ELSE [kds |-> kds,
          errcode |-> STROM_SET_ERROR(errcode, StromError_DataStoreCorruption)]

\* gpupreagg_data_move: column colidx of kds_src row rowidx_src copied to
\* kds_dst row rowidx_dst
gpupreagg_data_move(c, src, dst, colidx, rowidx_src, rowidx_dst) ==
    LET d == ColOf(src, rowidx_src, colidx)
    IN  SetCol(c, dst, rowidx_dst, colidx,
               IF d # Garbage /\ d.isnull
               THEN [isnull |-> TRUE, val |-> FromInt(0, SizeofShort)]
               ELSE d)

\* gpupreagg_global_preparation, lines 486-494: work-item w zeroes the hash
\* of slot curr_index (work-item 0 first sets nvalids to 0)
ResetHash(w) ==
    /\ wk[w].pc = "reset_hash"
    /\ g_hashslot' = [g_hashslot EXCEPT ![wk[w].curr_index].hash = 0]
    /\ krowmap' = IF w = 0 THEN [krowmap EXCEPT !.nvalids = 0] ELSE krowmap
    /\ wk' = [wk EXCEPT ![w].pc = "reset_index"]

\* a reset that leaves the loop after the work-item's first slot
ResetIndex_FirstSlotOnly(w, next_pc) ==
    /\ wk[w].pc = "reset_index"
    /\ g_hashslot' = [g_hashslot EXCEPT ![wk[w].curr_index].index = ALL_ONES]
    /\ wk' = [wk EXCEPT ![w].curr_index = @ + GlobalSize(cfg), ![w].pc = next_pc]

\* line 495, and the loop's step
ResetIndex(w, next_pc) ==
    /\ wk[w].pc = "reset_index"
    /\ g_hashslot' = [g_hashslot EXCEPT ![wk[w].curr_index].index = ALL_ONES]
    /\ LET next == wk[w].curr_index + GlobalSize(cfg)
       IN  wk' = [wk EXCEPT ![w].curr_index = next,
                            ![w].pc = IF next < cfg.hash_size
                                      THEN "reset_hash" ELSE next_pc]

\* line 528: the call of gpupreagg_global_preparation by every work-item
LocalResetHash(w) ==
    /\ stage = "local_reduction"
    /\ ResetHash(w)
    /\ UNCHANGED <<calcVars, sortVars, cfg, stage, status, kds_src, kds_dst, grp>>

LocalResetIndex(w) ==
    /\ stage = "local_reduction"
    /\ ResetIndex(w, "bar1")
    /\ UNCHANGED <<calcVars, sortVars, cfg, stage, status, krowmap, kds_src, kds_dst, grp>>

\* hash_size = 2 * get_local_size(0)
LocalHashSize(c) == 2 * c.localSize

\* lines 536-571: barrier, the hash of the work-item's row, the reset of
\* l_hashslot, barrier, the first slot to try.  A work-item without a row
\* goes on to the barrier of line 608 with owner_index all ones.
LocalHash(g) ==
    /\ stage = "local_reduction"
    /\ AllAt(cfg, g, "bar1")
    /\ \E hv \in [Members(cfg, g) -> {HashOfKey(k) : k \in Keys} \cup {7}] :
         /\ \A w \in Members(cfg, g) :
               w < kds_src.nitems => hv[w] \in gpupreagg_hashvalue(cfg, kds_src, w)
         /\ \A w \in Members(cfg, g) : w >= kds_src.nitems => hv[w] = 7
         /\ wk' = [w \in WorkItems(cfg) |->
                     IF w \in Members(cfg, g)
                     THEN [wk[w] EXCEPT !.hash_value = hv[w],
                                        !.index = hv[w] % LocalHashSize(cfg),
                                        !.owner_index = ALL_ONES,
                                        !.pc = IF w < kds_src.nitems
                                               THEN "probe" ELSE "bar2"]
                     ELSE wk[w]]
    /\ UNCHANGED <<calcVars, sortVars, cfg, stage, status, krowmap, kds_src, kds_dst, g_hashslot, grp>>

\* line 576: the slot the compare-and-swap is applied to, &g_hashslot[index]
LocalProbeSlot(w) == wk[w].index

\* line 589: buddy_index
LocalBuddy(w, cur) == w - get_local_id(cfg, w) + cur.index

\* lines 573-605: one compare-and-swap of work-item w and what it makes of
\* the slot's value
LocalProbe(w) ==
    /\ stage = "local_reduction"
    /\ wk[w].pc = "probe"
    /\ LET slot == LocalProbeSlot(w)
           cur == g_hashslot[slot]
           new_slot == [hash |-> wk[w].hash_value, index |-> w]
       IN  IF cur = EmptySlot
           THEN /\ g_hashslot' = [g_hashslot EXCEPT ![slot] = new_slot]
                /\ wk' = [wk EXCEPT ![w].owner_index = new_slot.index,
                                    ![w].pc = "bar2"]
           ELSE /\ UNCHANGED g_hashslot
                /\ IF cur.hash = new_slot.hash
                   THEN \E rv \in gpupreagg_keycomp(cfg, kds_src, w, LocalBuddy(w, cur)) :
                          wk' = IF rv = 0
                                THEN [wk EXCEPT ![w].owner_index = cur.index,
                                                ![w].pc = "bar2"]
                                ELSE [wk EXCEPT ![w].index =
                                          (@ + 1) % LocalHashSize(cfg)]
                   ELSE wk' = [wk EXCEPT ![w].index = (@ + 1) % LocalHashSize(cfg)]
    /\ UNCHANGED <<calcVars, sortVars, cfg, stage, status, krowmap, kds_src, kds_dst, grp>>

\* get_local_id(0) == owner_index (lines 616, 650, 686)
LocalIsOwner(w) == get_local_id(cfg, w) = wk[w].owner_index

\* a capacity check on the work-item's own row, base_index + local id
LocalNoSpace_OwnRow(w, base_index, ngroups) ==
    cfg.dst_nrooms < base_index + get_local_id(cfg, w) + 1

\* line 621: kds_dst->nrooms < base_index + ngroups, as work-item w
\* evaluates it: base_index is the work-group's local variable and ngroups
\* the total that the stairlike add hands to every work-item
LocalNoSpace(w, base_index, ngroups) == cfg.dst_nrooms < base_index + ngroups

\* lines 608-626: barrier, the count of the group's owners (stairlike add),
\* one atomic_add on kds_dst->nitems by work-item 0, barrier, and the
\* capacity check, after which the group leaves or goes on to the columns
LocalReserve(g) ==
    /\ stage = "local_reduction"
    /\ AllAt(cfg, g, "bar2")
    /\ LET flag == [w \in WorkItems(cfg) |-> LocalIsOwner(w)]
           ngroups == StairlikeTotal(cfg, g, flag)
           base_index == kds_dst.nitems
       IN  /\ kds_dst' = [kds_dst EXCEPT !.nitems = @ + ngroups]
           /\ grp' = [grp EXCEPT ![g].base = base_index, ![g].nitems = ngroups,
                                 ![g].attnum = 0]
           /\ wk' = [w \in WorkItems(cfg) |->
                       IF w \in Members(cfg, g)
                       THEN IF LocalNoSpace(w, base_index, ngroups)
                            THEN [wk[w] EXCEPT !.errcode = StromError_DataStoreNoSpace,
                                               !.offset = StairlikeOffset(cfg, w, flag),
                                               !.pc = "exit"]
                            ELSE [wk[w] EXCEPT !.offset = StairlikeOffset(cfg, w, flag),
                                               !.dest_index = base_index
                                                   + StairlikeOffset(cfg, w, flag),
                                               !.pc = "column"]
                       ELSE wk[w]]
    /\ UNCHANGED <<calcVars, sortVars, cfg, stage, status, krowmap, kds_src, g_hashslot>>

RECURSIVE MoveAll(_, _, _)
\* the moves of column a by the work-items of ws, one after another
MoveAll(ws, dst, a) ==
    IF ws = {} THEN dst
    ELSE LET w == CHOOSE v \in ws : \A u \in ws : v <= u
         IN  MoveAll(ws \ {w},
                     gpupreagg_data_move(cfg, kds_src, dst, a, w, wk[w].dest_index), a)

RECURSIVE StoreAll(_, _, _, _)
\* the stores of column a by the work-items of ws, one after another: the
\* batch and each work-item's error code
StoreAll(ws, dst, errs, a) ==
    IF ws = {} THEN [kds |-> dst, errs |-> errs]
    ELSE LET w == CHOOSE v \in ws : \A u \in ws : v <= u
             g == get_group_id(cfg, w)
             r == gpupreagg_data_store(cfg, grp[g].l_datum[wk[w].owner_index],
                                       errs[w], dst, a, wk[w].dest_index)
         IN  StoreAll(ws \ {w}, r.kds, [errs EXCEPT ![w] = r.errcode], a)

\* lines 640-672: the next column of group g.  Past the last column the
\* group leaves.  A grouping key or unused column is moved by the owners.
\* For an aggregate every work-item with a row loads its accumulator; after
\* the barrier those that are not their own owner go on to merge.
LocalColumn(g) ==
    /\ stage = "local_reduction"
    /\ AllAt(cfg, g, "column")
    /\ LET a == grp[g].attnum
           owners == {w \in Members(cfg, g) : LocalIsOwner(w)}
       IN  IF a >= cfg.ncols
           THEN /\ wk' = [w \in WorkItems(cfg) |->
                            IF w \in Members(cfg, g) THEN [wk[w] EXCEPT !.pc = "exit"]
                            ELSE wk[w]]
                /\ UNCHANGED <<kds_dst, grp>>
           ELSE IF cfg.atts[a] # GPUPREAGG_FIELD_IS_AGGFUNC
           THEN /\ kds_dst' = MoveAll(owners, kds_dst, a)
                /\ grp' = [grp EXCEPT ![g].attnum = a + 1]
                /\ UNCHANGED wk
           ELSE LET ld == [w \in Members(cfg, g) |->
                             IF w < kds_src.nitems
                             THEN gpupreagg_data_load(cfg,
                                      grp[g].l_datum[get_local_id(cfg, w)],
                                      wk[w].errcode, kds_src, a, w)
                             ELSE [datum |-> grp[g].l_datum[get_local_id(cfg, w)],
                                   errcode |-> wk[w].errcode]]
                IN  /\ grp' = [grp EXCEPT ![g].l_datum =
                          [l \in 0..(cfg.localSize - 1) |->
                              ld[g * cfg.localSize + l].datum]]
                    /\ wk' = [w \in WorkItems(cfg) |->
                                IF w \in Members(cfg, g)
                                THEN [wk[w] EXCEPT
                                        !.errcode = ld[w].errcode,
                                        !.pc = IF w < kds_src.nitems
                                                  /\ w # wk[w].owner_index
                                               THEN "merge" ELSE "bar3"]
                                ELSE wk[w]]
                    /\ UNCHANGED kds_dst
    /\ UNCHANGED <<calcVars, sortVars, cfg, stage, status, krowmap, kds_src, g_hashslot>>

\* lines 675-682: gpupreagg_local_calc(l_datum + owner_index,
\* l_datum + get_local_id(0)); an owner_index past the group's accumulators
\* is a write outside them
LocalMerge(w) ==
    /\ stage = "local_reduction"
    /\ wk[w].pc = "merge"
    /\ LET g == get_group_id(cfg, w)
           o == wk[w].owner_index
       IN  IF o \in DOMAIN grp[g].l_datum
           THEN LET r == MergeDatum(cfg.op, wk[w].errcode, grp[g].l_datum[o],
                                    grp[g].l_datum[get_local_id(cfg, w)])
                IN  /\ grp' = [grp EXCEPT ![g].l_datum[o] = r.accum]
                    /\ wk' = [wk EXCEPT ![w].errcode = r.errcode, ![w].pc = "bar3"]
           ELSE /\ grp' = [grp EXCEPT ![g].overrun = TRUE]
                /\ wk' = [wk EXCEPT ![w].pc = "bar3"]
    /\ UNCHANGED <<calcVars, sortVars, cfg, stage, status, krowmap, kds_src, kds_dst, g_hashslot>>

\* lines 683-697: barrier, the owners store their accumulators to the rows
\* they reserved, barrier, next column
LocalStore(g) ==
    /\ stage = "local_reduction"
    /\ AllAt(cfg, g, "bar3")
    /\ LET owners == {w \in Members(cfg, g) : LocalIsOwner(w)}
           r == StoreAll(owners, kds_dst, [w \in WorkItems(cfg) |-> wk[w].errcode],
                         grp[g].attnum)
       IN  /\ kds_dst' = r.kds
           /\ wk' = [w \in WorkItems(cfg) |->
                       IF w \in Members(cfg, g)
                       THEN [wk[w] EXCEPT !.errcode = r.errs[w], !.pc = "column"]
                       ELSE wk[w]]
           /\ grp' = [grp EXCEPT ![g].attnum = @ + 1]
    /\ UNCHANGED <<calcVars, sortVars, cfg, stage, status, krowmap, kds_src, g_hashslot>>

(***************************************************************************)
(* gpupreagg_global_preparation as a kernel of its own                     *)
(***************************************************************************)
GlobalPrepResetHash(w) ==
    /\ stage = "global_preparation"
    /\ ResetHash(w)
    /\ UNCHANGED <<calcVars, sortVars, cfg, stage, status, kds_src, kds_dst, grp>>

GlobalPrepResetIndex(w) ==
    /\ stage = "global_preparation"
    /\ ResetIndex(w, "exit")
    /\ UNCHANGED <<calcVars, sortVars, cfg, stage, status, krowmap, kds_src, kds_dst, grp>>

(***************************************************************************)
(* gpupreagg_global_reduction                                              *)
(*                                                                         *)
(* kds_src, which is no parameter of this kernel, is read as kds_dst, and  *)
(* gpupreagg_global_calc, called without attnum, as the merge of column    *)
(* attnum.  The kernel does not reset g_hashslot and writes no status.     *)
(***************************************************************************)
\* lines 733-757: barrier, the hash of the work-item's row of kds_dst, the
\* first slot to try.  A work-item without a row goes on to the barrier of
\* line 795 with owner_index all ones.
GlobalHash(g) ==
    /\ stage = "global_reduction"
    /\ AllAt(cfg, g, "start")
    /\ \E hv \in [Members(cfg, g) -> {HashOfKey(k) : k \in Keys} \cup {7}] :
         /\ \A w \in Members(cfg, g) :
               w < kds_dst.nitems => hv[w] \in gpupreagg_hashvalue(cfg, kds_dst, w)
         /\ \A w \in Members(cfg, g) : w >= kds_dst.nitems => hv[w] = 7
         /\ wk' = [w \in WorkItems(cfg) |->
                     IF w \in Members(cfg, g)
                     THEN [wk[w] EXCEPT !.hash_value = hv[w],
                                        !.index = hv[w] % cfg.hash_size,
                                        !.owner_index = ALL_ONES,
                                        !.pc = IF w < kds_dst.nitems
                                               THEN "probe" ELSE "bar2"]
                     ELSE wk[w]]
    /\ UNCHANGED <<calcVars, sortVars, cfg, stage, status, krowmap, kds_src, kds_dst, g_hashslot, grp>>

\* lines 758-786: one compare-and-swap of work-item w and what it makes of
\* the slot's value
GlobalProbe(w) ==
    /\ stage = "global_reduction"
    /\ wk[w].pc = "probe"
    /\ LET slot == wk[w].index
           cur == g_hashslot[slot]
           new_slot == [hash |-> wk[w].hash_value, index |-> w]
       IN  IF cur = EmptySlot
           THEN /\ g_hashslot' = [g_hashslot EXCEPT ![slot] = new_slot]
                /\ wk' = [wk EXCEPT ![w].owner_index = new_slot.index,
                                    ![w].pc = "bar2"]
           ELSE /\ UNCHANGED g_hashslot
                /\ IF cur.hash = new_slot.hash
                   THEN \E rv \in gpupreagg_keycomp(cfg, kds_dst, w, cur.index) :
                          wk' = IF rv = 0
                                THEN [wk EXCEPT ![w].owner_index = cur.index,
                                                ![w].pc = "bar2"]
                                ELSE [wk EXCEPT ![w].index = (@ + 1) % cfg.hash_size]
                   ELSE wk' = [wk EXCEPT ![w].index = (@ + 1) % cfg.hash_size]
    /\ UNCHANGED <<calcVars, sortVars, cfg, stage, status, krowmap, kds_src, kds_dst, grp>>

\* get_global_id(0) == owner_index (lines 796, 835)
GlobalIsOwner(w) == w = wk[w].owner_index

\* line 801: kds_dst->nrooms < base_index + ngroups, as work-item w
\* evaluates it
GlobalNoSpace(w, base_index, ngroups) == cfg.dst_nrooms < base_index + ngroups

\* lines 795-806: barrier, the count of the group's owners (stairlike add),
\* one atomic_add on krowmap->nvalids by work-item 0, barrier, and the
\* capacity check, after which the group leaves or goes on to the columns
GlobalReserve(g) ==
    /\ stage = "global_reduction"
    /\ AllAt(cfg, g, "bar2")
    /\ LET flag == [w \in WorkItems(cfg) |-> GlobalIsOwner(w)]
           ngroups == StairlikeTotal(cfg, g, flag)
           base_index == krowmap.nvalids
       IN  /\ krowmap' = [krowmap EXCEPT !.nvalids = @ + ngroups]
           /\ grp' = [grp EXCEPT ![g].base = base_index, ![g].nitems = ngroups]
           /\ wk' = [w \in WorkItems(cfg) |->
                       IF w \in Members(cfg, g)
                       THEN IF GlobalNoSpace(w, base_index, ngroups)
                            THEN [wk[w] EXCEPT !.errcode = StromError_DataStoreNoSpace,
                                               !.offset = StairlikeOffset(cfg, w, flag),
                                               !.pc = "exit"]
                            ELSE [wk[w] EXCEPT !.offset = StairlikeOffset(cfg, w, flag),
                                               !.dest_index = base_index
                                                   + StairlikeOffset(cfg, w, flag),
                                               !.attnum = 0,
                                               !.pc = "column"]
                       ELSE wk[w]]
    /\ UNCHANGED <<calcVars, sortVars, cfg, stage, status, kds_src, kds_dst, g_hashslot>>

\* lines 816-846: the next aggregate column of work-item w, at attnum or
\* after it (grouping keys and unused columns are skipped).  The owner
\* writes its row's index to the row map; any other work-item with a row
\* merges its row into the owner's with gpupreagg_global_calc, and an
\* owner_index past the batch's rows is a write outside the batch.
GlobalColumn(w) ==
    /\ stage = "global_reduction"
    /\ wk[w].pc = "column"
    /\ LET todo == {a \in AggCols(cfg) : a >= wk[w].attnum}
           g == get_group_id(cfg, w)
           o == wk[w].owner_index
       IN  IF todo = {}
           THEN /\ wk' = [wk EXCEPT ![w].pc = "exit", ![w].attnum = cfg.ncols]
                /\ UNCHANGED <<krowmap, kds_dst, grp>>
           ELSE LET a == CHOOSE b \in todo : \A d \in todo : b <= d
                IN  IF w >= kds_dst.nitems
                    THEN /\ wk' = [wk EXCEPT ![w].attnum = a + 1]
                         /\ UNCHANGED <<krowmap, kds_dst, grp>>
                    ELSE IF GlobalIsOwner(w)
                    THEN /\ krowmap' = [krowmap EXCEPT !.rindex[wk[w].dest_index] = w]
                         /\ wk' = [wk EXCEPT ![w].attnum = a + 1]
                         /\ UNCHANGED <<kds_dst, grp>>
                    ELSE IF o \in DOMAIN kds_dst.rows
                    THEN LET r == MergeDatum(cfg.op, wk[w].errcode,
                                             ColOf(kds_dst, o, a), ColOf(kds_dst, w, a))
                         IN  /\ kds_dst' = SetCol(cfg, kds_dst, o, a, r.accum)
                             /\ wk' = [wk EXCEPT ![w].attnum = a + 1,
                                                 ![w].errcode = r.errcode]
                             /\ UNCHANGED <<krowmap, grp>>
                    ELSE /\ grp' = [grp EXCEPT ![g].overrun = TRUE]
                         /\ wk' = [wk EXCEPT ![w].attnum = a + 1]
                         /\ UNCHANGED <<krowmap, kds_dst>>
    /\ UNCHANGED <<calcVars, sortVars, cfg, stage, status, kds_src, g_hashslot>>

(***************************************************************************)
(* The host: one kernel after another on the same grid; the status is read *)
(* after each and the next kernel is launched only on Success              *)
(***************************************************************************)
Stages == <<"preparation", "global_preparation", "local_reduction",
            "global_reduction", "done">>

\* the private variables of work-item w when the kernel of stage s starts
KernelStart(c, s, w) ==
    CASE s = "preparation" -> WorkItemStart("start")
      [] s = "global_preparation" ->
            [WorkItemStart(IF w < c.hash_size THEN "reset_hash" ELSE "exit")
                EXCEPT !.curr_index = w]
      [] s = "local_reduction" ->
            [WorkItemStart(IF w < c.hash_size THEN "reset_hash" ELSE "bar1")
                EXCEPT !.curr_index = w]
      [] s = "global_reduction" -> WorkItemStart("start")

\* the local memory of a work-group when a kernel starts
LocalStart(c) == [GroupStart EXCEPT !.l_datum = [l \in 0..(c.localSize - 1) |-> Garbage]]

HostLaunch ==
    /\ \E i \in 1..(Len(Stages) - 1) :
         /\ stage = Stages[i]
         /\ \A w \in WorkItems(cfg) : wk[w].pc = "exit"
         /\ IF status # StromError_Success
            THEN stage' = "failed" /\ UNCHANGED <<wk, grp>>
            ELSE /\ stage' = Stages[i + 1]
                 /\ IF Stages[i + 1] = "done"
                    THEN UNCHANGED <<wk, grp>>
                    ELSE /\ wk' = [w \in WorkItems(cfg) |->
                                     KernelStart(cfg, Stages[i + 1], w)]
                         /\ grp' = [g \in WorkGroups(cfg) |-> LocalStart(cfg)]
    /\ UNCHANGED <<calcVars, sortVars, cfg, status, krowmap, kds_src, kds_dst, g_hashslot>>

(***************************************************************************)
(* The inputs of the pipeline                                              *)
(***************************************************************************)
MaxRows == 3
LocalSize == 2
NumGroups == 2
\* the value of input row i: a power of two, so that a sum tells its terms
ValueOf(i) == 2 ^ i
Quals == {"pass", "fail", "error"}
SrcRooms == {1, MaxRows + 1}
DstRooms == {2, MaxRows + 1}
\* the qualifier's verdicts: every row passes, except perhaps the first
QualPatterns ==
    {q \in [0..(MaxRows - 1) -> Quals] : \A i \in 1..(MaxRows - 1) : q[i] = "pass"}
\* the grouping keys of the input rows, numbered in the order in which they
\* first appear
KeyPatterns ==
    {ks \in [0..(MaxRows - 1) -> Keys] :
        /\ ks[0] = 1
        /\ \A i \in 1..(MaxRows - 1) :
              \E j \in 0..(i - 1) : ks[i] <= ks[j] + 1}

Configs ==
    {[nitems_in |-> MaxRows,
      rows_in |-> [i \in 0..(MaxRows - 1) |->
                      [key |-> ks[i], val |-> ValueOf(i), qual |-> qs[i]]],
      ncols |-> 2,
      atts |-> [a \in 0..1 |-> IF a = 0 THEN GPUPREAGG_FIELD_IS_GROUPKEY
                               ELSE GPUPREAGG_FIELD_IS_AGGFUNC],
      attlen |-> [a \in 0..1 |-> SizeofShort],
      op |-> op,
      src_nrooms |-> sr, dst_nrooms |-> dr,
      hash_size |-> 2 * LocalSize,
      localSize |-> LocalSize, ngroups |-> NumGroups] :
        ks \in KeyPatterns,
        qs \in QualPatterns,
        op \in AggOps, sr \in SrcRooms, dr \in DstRooms}

Init ==
    /\ calc = CalcIdle
    /\ srt = SortIdle
    /\ cfg \in Configs
    /\ stage = "preparation"
    /\ status = StromError_Success
    /\ krowmap = [nvalids |-> -1,
                  rindex |-> [i \in 0..(cfg.dst_nrooms - 1) |-> ALL_ONES]]
    /\ kds_src = [nitems |-> 0, rows |-> [r \in 0..(cfg.src_nrooms - 1) |-> NoRow(cfg)]]
    /\ kds_dst = [nitems |-> 0, rows |-> [r \in 0..(cfg.dst_nrooms - 1) |-> NoRow(cfg)]]
    /\ g_hashslot = [i \in 0..(cfg.hash_size - 1) |-> EmptySlot]
    /\ wk = [w \in WorkItems(cfg) |-> KernelStart(cfg, "preparation", w)]
    /\ grp = [g \in WorkGroups(cfg) |-> LocalStart(cfg)]

Next ==
    \/ \E g \in WorkGroups(cfg) : PrepReserve(g)
    \/ \E g \in WorkGroups(cfg) : PrepProject(g)
    \/ \E g \in WorkGroups(cfg) : PrepWriteback(g)
    \/ \E w \in WorkItems(cfg) : GlobalPrepResetHash(w)
    \/ \E w \in WorkItems(cfg) : GlobalPrepResetIndex(w)
    \/ \E w \in WorkItems(cfg) : LocalResetHash(w)
    \/ \E w \in WorkItems(cfg) : LocalResetIndex(w)
    \/ \E g \in WorkGroups(cfg) : LocalHash(g)
    \/ \E w \in WorkItems(cfg) : LocalProbe(w)
    \/ \E g \in WorkGroups(cfg) : LocalReserve(g)
    \/ \E g \in WorkGroups(cfg) : LocalColumn(g)
    \/ \E w \in WorkItems(cfg) : LocalMerge(w)
    \/ \E g \in WorkGroups(cfg) : LocalStore(g)
    \/ \E g \in WorkGroups(cfg) : GlobalHash(g)
    \/ \E w \in WorkItems(cfg) : GlobalProbe(w)
    \/ \E g \in WorkGroups(cfg) : GlobalReserve(g)
    \/ \E w \in WorkItems(cfg) : GlobalColumn(w)
    \/ HostLaunch

Spec == Init /\ [][Next]_vars

(***************************************************************************)
(* Specifications                                                          *)
(***************************************************************************)
PipeIdle ==
    /\ cfg = [n |-> 0]
    /\ stage = "idle"
    /\ status = StromError_Success
    /\ krowmap = [nvalids |-> -1]
    /\ kds_src = [nitems |-> 0]
    /\ kds_dst = [nitems |-> 0]
    /\ g_hashslot = <<>>
    /\ wk = <<>>
    /\ grp = <<>>

\* gpupreagg_preparation alone
NextPrep ==
    \/ \E g \in WorkGroups(cfg) : PrepReserve(g)
    \/ \E g \in WorkGroups(cfg) : PrepProject(g)
    \/ \E g \in WorkGroups(cfg) : PrepWriteback(g)
SpecPrep == Init /\ [][NextPrep]_vars

\* the merge templates alone
InitCalc == CalcInit /\ srt = SortIdle /\ PipeIdle
NextCalc == CalcMerge /\ UNCHANGED <<sortVars, pipeVars>>
SpecCalc == InitCalc /\ [][NextCalc]_vars

\* several merges into one owner, in any order
InitFold == FoldInit /\ srt = SortIdle /\ PipeIdle
NextFold == FoldMerge /\ UNCHANGED <<sortVars, pipeVars>>
SpecFold == InitFold /\ [][NextFold]_vars

\* the sort fallback alone
InitSort == SortInit /\ calc = CalcIdle /\ PipeIdle
NextSort ==
    \/ SortLocal /\ UNCHANGED <<calcVars, pipeVars>>
    \/ SortStep /\ UNCHANGED <<calcVars, pipeVars>>
    \/ SortMerge /\ UNCHANGED <<calcVars, pipeVars>>
SpecSort == InitSort /\ [][NextSort]_vars

\* gpupreagg_global_reduction alone, launched on a hash table that is all
\* empty and a row map that is empty, over a batch of one to MaxRows rows
GlobalHashSizes == {LocalSize, 2 * LocalSize}
RoleTables ==
    {[a \in 0..1 |-> IF a = 0 THEN GPUPREAGG_FIELD_IS_GROUPKEY ELSE r] :
        r \in {GPUPREAGG_FIELD_IS_AGGFUNC, GPUPREAGG_FIELD_IS_NULL}}

GlobalConfigs ==
    LET all ==
          {[nitems_in |-> n,
            rows_in |-> [i \in 0..(MaxRows - 1) |->
                            [key |-> ks[i], val |-> ValueOf(i), qual |-> "pass"]],
            ncols |-> 2,
            atts |-> roles,
            attlen |-> [a \in 0..1 |-> SizeofShort],
            op |-> op,
            src_nrooms |-> MaxRows + 1, dst_nrooms |-> dr,
            hash_size |-> hs,
            localSize |-> LocalSize, ngroups |-> NumGroups] :
              n \in 1..MaxRows, ks \in KeyPatterns, roles \in RoleTables,
              op \in AggOps, dr \in DstRooms, hs \in GlobalHashSizes}
    IN  {c \in all : c.nitems_in <= c.dst_nrooms}

InitGlobal ==
    /\ calc = CalcIdle
    /\ srt = SortIdle
    /\ cfg \in GlobalConfigs
    /\ stage = "global_reduction"
    /\ status = StromError_Success
    /\ krowmap = [nvalids |-> 0,
                  rindex |-> [i \in 0..(cfg.dst_nrooms - 1) |-> ALL_ONES]]
    /\ kds_src = [nitems |-> 0, rows |-> [r \in 0..(cfg.src_nrooms - 1) |-> NoRow(cfg)]]
    /\ kds_dst = [nitems |-> cfg.nitems_in,
                  rows |-> [r \in 0..(cfg.dst_nrooms - 1) |->
                              IF r < cfg.nitems_in
                              THEN gpupreagg_projection(cfg, r) ELSE NoRow(cfg)]]
    /\ g_hashslot = [i \in 0..(cfg.hash_size - 1) |-> EmptySlot]
    /\ wk = [w \in WorkItems(cfg) |-> KernelStart(cfg, "global_reduction", w)]
    /\ grp = [g \in WorkGroups(cfg) |-> LocalStart(cfg)]

NextGlobal ==
    \/ \E g \in WorkGroups(cfg) : GlobalHash(g)
    \/ \E w \in WorkItems(cfg) : GlobalProbe(w)
    \/ \E g \in WorkGroups(cfg) : GlobalReserve(g)
    \/ \E w \in WorkItems(cfg) : GlobalColumn(w)

SpecGlobal == InitGlobal /\ [][NextGlobal]_vars

\* the same kernel with every work-item that can take a step taking one
\* in the end: a device runs each work-item of a launched kernel
FairGlobal ==
    /\ SpecGlobal
    /\ \A w \in 0..(LocalSize * NumGroups - 1) :
          /\ WF_vars(GlobalProbe(w))
          /\ WF_vars(GlobalColumn(w))
    /\ \A g \in 0..(NumGroups - 1) :
          /\ WF_vars(GlobalHash(g))
          /\ WF_vars(GlobalReserve(g))

\* the input rows that pass the qualifier, and their grouping keys
Qualifying == {i \in 0..(cfg.nitems_in - 1) : cfg.rows_in[i].qual = "pass"}
InputKeys == {cfg.rows_in[i].key : i \in Qualifying}

RECURSIVE SerialFold(_, _, _)
\* the aggregate of the values of the input rows of is, taken one row after
\* another in the integers
SerialFold(op, is, acc) ==
    IF is = {} THEN acc
    ELSE LET i == CHOOSE j \in is : \A h \in is : j <= h
             v == cfg.rows_in[i].val
         IN  SerialFold(op, is \ {i},
                        CASE op = "PSUM" -> acc + v
                          [] op = "PMAX" -> IF v > acc THEN v ELSE acc
                          [] op = "PMIN" -> IF v < acc THEN v ELSE acc)

\* the (group key, aggregate value) rows of a serial group-by of the input
SerialGroupBy ==
    {LET is == {i \in Qualifying : cfg.rows_in[i].key = k}
         first == CHOOSE j \in is : \A h \in is : j <= h
     IN  [a \in Cols(cfg) |->
            [isnull |-> FALSE,
             val |-> FromInt(IF a = 0 THEN k
                             ELSE SerialFold(cfg.op, is \ {first},
                                             cfg.rows_in[first].val),
                             SizeofShort)]] : k \in InputKeys}

\* the rows the row map enumerates as the result
OutputRow(i) ==
    IF i \in DOMAIN krowmap.rindex /\ krowmap.rindex[i] \in DOMAIN kds_dst.rows
    THEN kds_dst.rows[krowmap.rindex[i]]
    ELSE NoRow(cfg)
OutputIndexes == 0..(krowmap.nvalids - 1)

\* no reservation has gone past a capacity
WithinCapacity ==
    /\ kds_src.nitems <= cfg.src_nrooms
    /\ kds_dst.nitems <= cfg.dst_nrooms
    /\ krowmap.nvalids <= cfg.dst_nrooms

\* C1: when the pipeline has run to its end without an error and within the
\* capacities, the rows the row map enumerates are, as a multiset, the
\* (group key, aggregate) pairs of a serial group-by of the qualifying input
\* rows
C1_LocalGlobalEqualsSerialGroupBy ==
    (stage = "done" /\ WithinCapacity) =>
        /\ {OutputRow(i) : i \in OutputIndexes} = SerialGroupBy
        /\ krowmap.nvalids = Cardinality(SerialGroupBy)

\* C2: when the pipeline has run to its end without an error and within the
\* capacities, every distinct grouping key of the qualifying input rows is the key of exactly one row
\* the row map enumerates
C2_EveryKeyExactlyOnce ==
    (stage = "done" /\ WithinCapacity) =>
        \A k \in InputKeys :
            Cardinality({i \in OutputIndexes :
                            OutputRow(i)[0] = [isnull |-> FALSE,
                                               val |-> FromInt(k, SizeofShort)]}) = 1

\* the grouping key of row x of kds_src
SrcKey(x) == ColOf(kds_src, x, 0)

\* C3: in local reduction, when a work-group has passed the barrier after
\* the compare-and-swap loop, every work-item with a row is the owner of its
\* key or holds the local id of the work-item of its group that is, and no
\* two owners of the group have the same key
C3_OneOwnerPerKeyKnownToAll ==
    \A g \in DOMAIN grp :
        (stage = "local_reduction" /\ AllAt(cfg, g, "bar2")) =>
            LET rows == {w \in Members(cfg, g) : w < kds_src.nitems}
                owners == {w \in rows : LocalIsOwner(w)}
            IN  /\ \A v, w \in owners : SrcKey(v) = SrcKey(w) => v = w
                /\ \A w \in rows \ owners :
                      \E v \in owners :
                          /\ get_local_id(cfg, v) = wk[w].owner_index
                          /\ SrcKey(v) = SrcKey(w)

\* C4: the reservation counters never exceed the capacities: kds_src->nitems
\* and kds_dst->nitems are at most the batches' nrooms, and krowmap->nvalids
\* is at most the row map's length (kds_dst->nrooms)
C4_CountersWithinCapacity ==
    stage \in {"preparation", "global_preparation", "local_reduction",
               "global_reduction", "done", "failed"} =>
        /\ kds_src.nitems <= cfg.src_nrooms
        /\ kds_dst.nitems <= cfg.dst_nrooms
        /\ krowmap.nvalids <= cfg.dst_nrooms

RECURSIVE SumOfReservations(_)
SumOfReservations(gs) ==
    IF gs = {} THEN 0
    ELSE LET g == CHOOSE h \in gs : TRUE
         IN  grp[g].nitems + SumOfReservations(gs \ {g})

\* the work-groups that have made their reservation in the running kernel,
\* and those of them that left with StromError_DataStoreNoSpace
HasReserved(g) ==
    \A w \in Members(cfg, g) :
        CASE stage = "preparation" -> wk[w].pc \in {"check", "out", "exit"}
          [] stage = "local_reduction" -> wk[w].pc \in {"column", "merge", "bar3", "exit"}
          [] stage = "global_reduction" -> wk[w].pc \in {"column", "exit"}
          [] OTHER -> FALSE
HitNoSpace(g) ==
    /\ HasReserved(g)
    /\ \E w \in Members(cfg, g) :
          wk[w].pc \in {"out", "exit"} /\ wk[w].errcode = StromError_DataStoreNoSpace

\* the counter the running kernel reserves from, and its value at launch
ReservationCounter ==
    CASE stage = "preparation" -> kds_src.nitems
      [] stage = "local_reduction" -> kds_dst.nitems
      [] stage = "global_reduction" -> krowmap.nvalids

\* C5: a reservation that ends in StromError_DataStoreNoSpace leaves nothing
\* in the counter: the counter is the sum of the reservations of the
\* work-groups that have reserved and did not end so
C5_FailedReservationLeavesCounter ==
    stage \in {"preparation", "local_reduction", "global_reduction"} =>
        ReservationCounter =
            SumOfReservations({g \in DOMAIN grp : HasReserved(g) /\ ~HitNoSpace(g)})

\* C6: when a kernel has ended and one of its work-groups left with
\* StromError_DataStoreNoSpace, the status the host reads holds an error
C6_NoSpaceReachesStatus ==
    (/\ stage \in {"preparation", "local_reduction", "global_reduction"}
     /\ \A w \in DOMAIN wk : wk[w].pc = "exit"
     /\ \E g \in DOMAIN grp : HitNoSpace(g)) =>
        status # StromError_Success

\* C7: while a kernel runs, an error code a work-item has recorded is not
\* replaced by another
C7_FirstErrorWins ==
    [][\A w \in DOMAIN wk :
          (stage' = stage /\ wk[w].errcode # StromError_Success) =>
              wk'[w].errcode = wk[w].errcode]_vars

(***************************************************************************)
(* Claims                                                                  *)
(***************************************************************************)
CalcSumOfTwo ==
    /\ calc.pc = "done"
    /\ calc.op = "PSUM"
    /\ ~calc.accum0.isnull
    /\ ~calc.newval.isnull

\* C8: for each accumulator width, a Sum merge of two non-null values (no
\* error recorded before) yields CpuReCheck exactly when the mathematical
\* sum lies outside the signed range of that width.
C8_OverflowSignalledAtEveryWidth ==
    (CalcSumOfTwo /\ calc.errcode0 = StromError_Success)
        => ((calc.errcode = StromError_CpuReCheck)
                <=> ~InRangeSum(calc.accum0.val, calc.newval.val))

\* C9 as stated: when the Sum merge detects overflow the accumulator is not
\* replaced by the sum wrapped modulo 2^w.
C9_NoWrapOnDetectedOverflow ==
    (CalcSumOfTwo /\ CHECK_OVERFLOW_INT(calc.accum0.val, calc.newval.val))
        => calc.accum.val # AddWrap(calc.accum0.val, calc.newval.val)

\* C9 amended: when the Sum merge detects overflow, the mathematical sum is
\* out of the accumulator's range and the accumulator, non-null, holds the
\* sum wrapped modulo 2^w: the addition is made whatever the check says.
C9_DetectedOverflowFlaggedAndWrapped ==
    (CalcSumOfTwo /\ CHECK_OVERFLOW_INT(calc.accum0.val, calc.newval.val))
        => /\ ~calc.accum.isnull
           /\ calc.accum.val = AddWrap(calc.accum0.val, calc.newval.val)
           /\ ~InRangeSum(calc.accum0.val, calc.newval.val)

\* a 32-bit Sum of INT_MAX and 1 has been merged and flagged
C9_Witness ==
    /\ CalcSumOfTwo
    /\ calc.bytes = SizeofInt
    /\ calc.accum0.val = MaxOf(SizeofInt)
    /\ calc.newval.val = FromInt(1, SizeofInt)
    /\ calc.errcode = StromError_CpuReCheck
    /\ calc.accum.val = MinOf(SizeofInt)

\* C10: after the sort fallback (local sort, the host's long-range steps,
\* merge) rindex is ordered by keycomp, for any row count.
C10_SortedWhenDone ==
    srt.pc = "done"
        => \A i \in 0..(srt.nrows - 2) :
              SortKeycomp(srt.keys, srt.rindex[i], srt.rindex[i + 1]) <= 0

\* six rows in descending key order at the front, work-groups of one
\* work-item (three partitions, steps of units 4 and 8), sorted
C10_Witness ==
    /\ srt.pc = "done"
    /\ srt.nrows = MaxSortRows
    /\ srt.localSize = 1
    /\ srt.keys[0] > srt.keys[srt.nrows - 1]
    /\ srt.rindex[0] # 0



\* gpupreagg_local_reduction alone, launched after gpupreagg_preparation and
\* gpupreagg_global_preparation on a grid of ProbeGroups work-groups of one
\* work-item, each with a row.  The rows have a grouping key and no other
\* column, so that the column loop moves the key (lines 647-661) and never
\* reaches the load, merge and store of an aggregate (lines 662-697).
ProbeGroups == 4
\* the grouping keys of the rows: two keys of different hash values, the
\* first two rows having one each and the third the key of the second
ProbeKeys == {k \in Keys : k # 2}
ProbeKeyPatterns ==
    {ks \in [0..(ProbeGroups - 1) -> ProbeKeys] :
        ks[0] = 3 /\ ks[1] = 1 /\ ks[2] = 1}

LocalConfigs ==
    {[nitems_in |-> ProbeGroups,
      rows_in |-> [i \in 0..(ProbeGroups - 1) |->
                      [key |-> ks[i], val |-> ValueOf(i), qual |-> "pass"]],
      ncols |-> 1,
      atts |-> [a \in {0} |-> GPUPREAGG_FIELD_IS_GROUPKEY],
      attlen |-> [a \in {0} |-> SizeofShort],
      op |-> "PSUM",
      src_nrooms |-> ProbeGroups, dst_nrooms |-> ProbeGroups,
      hash_size |-> 2,
      localSize |-> 1, ngroups |-> ProbeGroups] :
        ks \in ProbeKeyPatterns}

InitLocal ==
    /\ calc = CalcIdle
    /\ srt = SortIdle
    /\ cfg \in LocalConfigs
    /\ stage = "local_reduction"
    /\ status = StromError_Success
    /\ krowmap = [nvalids |-> 0,
                  rindex |-> [i \in 0..(cfg.dst_nrooms - 1) |-> ALL_ONES]]
    /\ kds_src = [nitems |-> cfg.nitems_in,
                  rows |-> [r \in 0..(cfg.src_nrooms - 1) |->
                              gpupreagg_projection(cfg, r)]]
    /\ kds_dst = [nitems |-> 0, rows |-> [r \in 0..(cfg.dst_nrooms - 1) |-> NoRow(cfg)]]
    /\ g_hashslot = [i \in 0..(cfg.hash_size - 1) |-> EmptySlot]
    /\ wk = [w \in WorkItems(cfg) |-> KernelStart(cfg, "local_reduction", w)]
    /\ grp = [g \in WorkGroups(cfg) |-> LocalStart(cfg)]

NextLocal ==
    \/ \E w \in WorkItems(cfg) : LocalResetHash(w)
    \/ \E w \in WorkItems(cfg) : LocalResetIndex(w)
    \/ \E g \in WorkGroups(cfg) : LocalHash(g)
    \/ \E w \in WorkItems(cfg) : LocalProbe(w)
    \/ \E g \in WorkGroups(cfg) : LocalReserve(g)
    \/ \E g \in WorkGroups(cfg) : LocalColumn(g)

SpecLocal == InitLocal /\ [][NextLocal]_vars

\* the same kernel with every work-item that can take a step taking one in
\* the end
FairLocal ==
    /\ SpecLocal
    /\ \A w \in 0..(ProbeGroups - 1) :
          /\ WF_vars(LocalResetHash(w))
          /\ WF_vars(LocalResetIndex(w))
          /\ WF_vars(LocalHash(w))
          /\ WF_vars(LocalProbe(w))
          /\ WF_vars(LocalReserve(w))
          /\ WF_vars(LocalColumn(w))

(***************************************************************************)
(* Global reduction on an empty hash table                                 *)
(***************************************************************************)
\* the rows of the batch that global reduction is launched on
BatchRows == 0..(kds_dst.nitems - 1)
DistinctKeys ==
    \A i \in BatchRows, j \in BatchRows :
        i # j => cfg.rows_in[i].key # cfg.rows_in[j].key
\* work-item w has left the probing loop of lines 758-786
Probed(w) == wk[w].pc \in {"bar2", "column", "exit"}
KernelDone == \A w \in WorkItems(cfg) : wk[w].pc = "exit"
RowMapEntries == {krowmap.rindex[i] : i \in 0..(krowmap.nvalids - 1)}
BatchUnchanged ==
    \A r \in BatchRows : kds_dst.rows[r] = gpupreagg_projection(cfg, r)

\* C11: global reduction of a batch whose rows all have distinct grouping
\* keys, on an all-empty hash table, merges nothing: every row of the batch
\* becomes its own owner, no column value of any row changes, and when the
\* kernel is done the row map enumerates all the rows of the batch.
C11_DistinctKeysNoMerge ==
    (stage = "global_reduction" /\ DistinctKeys) =>
        /\ \A w \in BatchRows : Probed(w) => wk[w].owner_index = w
        /\ BatchUnchanged
        /\ KernelDone =>
              /\ krowmap.nvalids = kds_dst.nitems
              /\ RowMapEntries = BatchRows

\* what does hold of such a batch: the same, with the row map only when the
\* field-role table has an aggregate column
C11_HoldsWithAggregateColumn ==
    (stage = "global_reduction" /\ DistinctKeys) =>
        /\ \A w \in BatchRows : Probed(w) => wk[w].owner_index = w
        /\ BatchUnchanged
        /\ (KernelDone /\ AggCols(cfg) # {}) =>
              /\ krowmap.nvalids = kds_dst.nitems
              /\ RowMapEntries = BatchRows
C11_Witness ==
    /\ stage = "global_reduction" /\ DistinctKeys /\ KernelDone
    /\ kds_dst.nitems = MaxRows
    /\ AggCols(cfg) # {}


(***************************************************************************)
(* The reservation protocol                                                *)
(***************************************************************************)
\* the grouping key of row x of kds_dst
DstKey(x) == ColOf(kds_dst, x, 0)

\* C12: a work-item never adopts the occupant of a slot whose key differs
\* from its own: when it has left the compare-and-swap loop of local or of
\* global reduction, the row its owner_index names (the slot holds the global
\* id of the work-item that claimed it, lines 568 and 755) is a row of the
\* batch whose grouping key equals the key of the work-item's own row
C12_OwnerKeyEqualsOwnKey ==
    \A w \in DOMAIN wk :
        /\ (stage = "local_reduction" /\ wk[w].pc = "bar2" /\ w < kds_src.nitems) =>
              /\ wk[w].owner_index \in 0..(kds_src.nitems - 1)
              /\ SrcKey(wk[w].owner_index) = SrcKey(w)
        /\ (stage = "global_reduction" /\ wk[w].pc = "bar2" /\ w < kds_dst.nitems) =>
              /\ wk[w].owner_index \in 0..(kds_dst.nitems - 1)
              /\ DstKey(wk[w].owner_index) = DstKey(w)

\* a run of local reduction in which the resets are over before any swap and
\* work-item 2 adopts the slot of work-item 0, whose key is another
C12_AdoptsOtherKey ==
    /\ stage = "local_reduction"
    /\ \A w \in DOMAIN wk : wk[w].pc \in {"probe", "bar2"}
    /\ kds_src.nitems = MaxRows
    /\ wk[2].pc = "bar2" /\ wk[2].owner_index = 0
    /\ wk[0].pc = "bar2" /\ wk[0].owner_index = 0
    /\ SrcKey(0) # SrcKey(2)
    /\ \A i \in DOMAIN g_hashslot :
          g_hashslot[i] \in {EmptySlot, [hash |-> wk[0].hash_value, index |-> 0]}


\* work-item w of global reduction is in the compare-and-swap loop and no
\* slot of the table can end it: every slot is taken, and by a row whose hash
\* or key differs from w's.  No step of the kernel changes a taken slot, so
\* the loop of lines 758-786 then goes round the table for ever.
GlobalStarved(w) ==
    /\ stage = "global_reduction"
    /\ wk[w].pc = "probe"
    /\ \A i \in DOMAIN g_hashslot :
          /\ g_hashslot[i] # EmptySlot
          /\ \/ g_hashslot[i].hash # wk[w].hash_value
             \/ gpupreagg_keycomp(cfg, kds_dst, w, g_hashslot[i].index) = {1}


\* the distinct grouping keys of the rows of the batch, and the size of the
\* table the stage probes
BatchKeys == {cfg.rows_in[i].key : i \in 0..(cfg.nitems_in - 1)}
TableSize ==
    IF stage = "local_reduction" THEN LocalHashSize(cfg) ELSE cfg.hash_size
\* work-item w is not yet out of the compare-and-swap loop
BeforeOwner(w) ==
    wk[w].pc \in {"reset_hash", "reset_index", "bar1", "start", "probe"}

\* C13: under fair scheduling, when the batch has no more distinct grouping
\* keys than the stage's table has slots, every work-item in the end leaves
\* the compare-and-swap loop (with an owner, if it has a row), whatever the
\* number of work-groups
C13_ProbingTerminates ==
    (Cardinality(BatchKeys) <= TableSize) =>
        <>(\A w \in WorkItems(cfg) : ~BeforeOwner(w))

\* work-item w of local reduction goes round a table in which no slot will
\* ever end its loop: every work-item but w is done, both slots are taken,
\* and each by a hash other than w's or with a buddy row of another key
LocalStarved(w) ==
    /\ stage = "local_reduction"
    /\ wk[w].pc = "probe"
    /\ \A v \in WorkItems(cfg) \ {w} : wk[v].pc = "exit"
    /\ \A i \in 0..(LocalHashSize(cfg) - 1) :
          /\ g_hashslot[i] # EmptySlot
          /\ \/ g_hashslot[i].hash # wk[w].hash_value
             \/ gpupreagg_keycomp(cfg, kds_src, w,
                                  LocalBuddy(w, g_hashslot[i])) = {1}
C13_Starved == \E w \in DOMAIN wk : LocalStarved(w)


\* C14: when the table of global reduction is exhausted for a probing
\* work-item (every slot is taken by a key other than its own), the
\* work-item in the end stops probing and the stage reports NoSpace
C14_ExhaustedTableEndsNoSpace ==
    \A w \in 0..(LocalSize * NumGroups - 1) :
        GlobalStarved(w) ~>
            /\ wk[w].pc # "probe"
            /\ \/ status = StromError_DataStoreNoSpace
               \/ wk[w].errcode = StromError_DataStoreNoSpace

\* a table of hash_size slots exhausted by a batch of more distinct keys
C14_Exhausted ==
    /\ Cardinality(BatchKeys) > cfg.hash_size
    /\ \E w \in DOMAIN wk : GlobalStarved(w)


(***************************************************************************)
(* The row map                                                             *)
(***************************************************************************)
GlobalOwners == {w \in BatchRows : GlobalIsOwner(w)}

\* C15: when global reduction has ended without error, whatever the
\* field-role table, nvalids is the number of owners and rindex[0..nvalids)
\* holds the row index of every owner, once, and no other index
C15_RowMapEnumeratesOwners ==
    (/\ stage = "global_reduction"
     /\ KernelDone
     /\ \A w \in WorkItems(cfg) : wk[w].errcode = StromError_Success) =>
        /\ krowmap.nvalids = Cardinality(GlobalOwners)
        /\ RowMapEntries = GlobalOwners
        /\ \A i, j \in 0..(krowmap.nvalids - 1) :
              krowmap.rindex[i] = krowmap.rindex[j] => i = j

\* the same for the field-role tables that have an aggregate column
C15_HoldsWithAggregateColumn ==
    (/\ stage = "global_reduction"
     /\ KernelDone
     /\ AggCols(cfg) # {}
     /\ \A w \in WorkItems(cfg) : wk[w].errcode = StromError_Success) =>
        /\ krowmap.nvalids = Cardinality(GlobalOwners)
        /\ RowMapEntries = GlobalOwners
        /\ \A i, j \in 0..(krowmap.nvalids - 1) :
              krowmap.rindex[i] = krowmap.rindex[j] => i = j

\* global reduction has ended on a batch of two groups whose field-role
\* table has no aggregate column
C15_EndedWithoutAggregateColumn ==
    /\ stage = "global_reduction" /\ KernelDone
    /\ AggCols(cfg) = {}
    /\ kds_dst.nitems = MaxRows
    /\ Cardinality(GlobalOwners) = 2
    /\ krowmap.nvalids = 2


(***************************************************************************)
(* The merge operators                                                     *)
(***************************************************************************)
\* x < y as integers, for two scalars of the same width: with the sign bit
\* of each inverted, the first digit from the top in which they differ
Biased(v) ==
    [i \in 1..Len(v) |-> IF i = Len(v) THEN (v[i] + HalfBase) % Base ELSE v[i]]
NumLess(x, y) ==
    \E i \in 1..Len(x) :
        /\ Biased(x)[i] < Biased(y)[i]
        /\ \A j \in (i + 1)..Len(x) : Biased(x)[j] = Biased(y)[j]

\* C16: a Max (Min) merge with a non-null newval leaves the accumulator
\* non-null, with newval's value if the accumulator was null and else with
\* the greater (smaller) of the two values; with a null newval it leaves the
\* accumulator as it was; the result is null only if both were null
C16_MaxMinMerge ==
    (calc.pc = "done" /\ calc.op \in {"PMAX", "PMIN"}) =>
        LET a == calc.accum0
            n == calc.newval0
            r == calc.accum
        IN  /\ n.isnull => r = a
            /\ (~n.isnull /\ a.isnull) => r = [isnull |-> FALSE, val |-> n.val]
            /\ (~n.isnull /\ ~a.isnull) =>
                  /\ ~r.isnull
                  /\ r.val \in {a.val, n.val}
                  /\ calc.op = "PMAX" =>
                        ~NumLess(r.val, a.val) /\ ~NumLess(r.val, n.val)
                  /\ calc.op = "PMIN" =>
                        ~NumLess(a.val, r.val) /\ ~NumLess(n.val, r.val)
            /\ r.isnull <=> (a.isnull /\ n.isnull)

\* a Max merge of a null accumulator whose stale value is above newval's
C16_Witness ==
    /\ calc.pc = "done" /\ calc.op = "PMAX"
    /\ calc.bytes = SizeofLong
    /\ calc.accum0.isnull /\ ~calc.newval0.isnull
    /\ NumLess(calc.newval0.val, calc.accum0.val)
    /\ calc.accum = calc.newval0

\* C17: a Sum merge of one null and one non-null operand leaves the non-null
\* value in the accumulator, flag cleared; of two nulls, a null; of two
\* non-null operands whose sum is in range, their sum; and newval is as it
\* was
C17_SumNullHandling ==
    (calc.pc = "done" /\ calc.op = "PSUM") =>
        LET a == calc.accum0
            n == calc.newval0
            r == calc.accum
        IN  /\ (a.isnull /\ ~n.isnull) => r = [isnull |-> FALSE, val |-> n.val]
            /\ (~a.isnull /\ n.isnull) => r = [isnull |-> FALSE, val |-> a.val]
            /\ (a.isnull /\ n.isnull) => r.isnull
            /\ (~a.isnull /\ ~n.isnull /\ InRangeSum(a.val, n.val)) =>
                  r = [isnull |-> FALSE, val |-> AddWrap(a.val, n.val)]
            /\ calc.newval = n

\* a Sum merge into a null accumulator of a value other than its stale one
C17_Witness ==
    /\ calc.pc = "done" /\ calc.op = "PSUM"
    /\ calc.accum0.isnull /\ ~calc.newval0.isnull
    /\ calc.accum0.val # calc.newval0.val
    /\ calc.accum = calc.newval0


\* the accumulator after the merge of newval into accum
Merged(accum, newval) == AggCalc(calc.op, StromError_Success, accum, newval).accum
\* two accumulators with the same null flag and, unless null, the same value
SameDatum(x, y) == x.isnull = y.isnull /\ (~x.isnull => x.val = y.val)

RECURSIVE MergedFrom(_, _)
\* the accumulator after the merges of newvals[i], newvals[i + 1], ... into
\* acc, in this order
MergedFrom(acc, i) ==
    IF i > Mergers THEN acc
    ELSE MergedFrom(Merged(acc, calc.newvals[i]), i + 1)

\* C18: Max, Min and Sum are commutative and associative, null being
\* neutral: whatever the order in which accumulators are merged into an
\* owner, the owner ends with the same value and null flag (for Sum also
\* when the sum wraps), and merging them into one another first and the
\* result into the owner gives the same again
C18_MergeOrderIrrelevant ==
    /\ calc.pc \in {"fold", "done"} =>
          \A i \in 1..Mergers :
              SameDatum(Merged(calc.accum0, calc.newvals[i]),
                        Merged(calc.newvals[i], calc.accum0))
    /\ calc.pc = "done" =>
          /\ SameDatum(calc.accum, MergedFrom(calc.accum0, 1))
          /\ SameDatum(calc.accum,
                       Merged(calc.accum0, MergedFrom(calc.newvals[1], 2)))

\* a Min of three distinct values that ends with the smallest, the first
\* of the accumulators merged into the owner's
C18_Witness ==
    /\ calc.pc = "done" /\ calc.op = "PMIN"
    /\ ~calc.accum0.isnull /\ ~calc.newvals[1].isnull /\ ~calc.newvals[2].isnull
    /\ calc.accum = calc.newvals[1]
    /\ NumLess(calc.newvals[1].val, calc.newvals[2].val)
    /\ NumLess(calc.newvals[2].val, calc.accum0.val)


(***************************************************************************)
(* Preparation                                                             *)
(***************************************************************************)
\* group g has made its reservation; the rows of kds_src it reserved
Reserved(g) == \A w \in Members(cfg, g) : wk[w].pc # "start"
Block(g) == grp[g].base..(grp[g].base + grp[g].nitems - 1)
\* work-item w has a row that passed the qualifier
Survives(w) == wk[w].kds_index < cfg.nitems_in
FilledRows == {r \in DOMAIN kds_src.rows : kds_src.rows[r] # NoRow(cfg)}

\* C19: in preparation, when the rows that pass the qualifier fit in
\* kds_src, the blocks that the groups reserve are pairwise disjoint, every
\* surviving row has a row of its own in its group's block, base + offset,
\* and is projected there, and when all groups are done kds_src->nitems is
\* the number of surviving rows and the rows written are 0..nitems-1
C19_PreparationBlocks ==
    (stage = "preparation" /\ Cardinality(Qualifying) <= cfg.src_nrooms) =>
        /\ \A g, h \in WorkGroups(cfg) :
              (g # h /\ Reserved(g) /\ Reserved(h)) => Block(g) \cap Block(h) = {}
        /\ \A w \in WorkItems(cfg) :
              LET g == get_group_id(cfg, w)
                  dest == grp[g].base + wk[w].offset
              IN  (Reserved(g) /\ Survives(w)) =>
                     /\ dest \in Block(g)
                     /\ \A v \in Members(cfg, g) :
                           (Survives(v) /\ v # w) =>
                               grp[g].base + wk[v].offset # dest
                     /\ wk[w].pc \in {"out", "exit"} =>
                           kds_src.rows[dest] = gpupreagg_projection(cfg, wk[w].kds_index)
        /\ (\A w \in WorkItems(cfg) : wk[w].pc = "exit") =>
              /\ kds_src.nitems = Cardinality(Qualifying)
              /\ FilledRows = 0..(kds_src.nitems - 1)
              /\ \A i \in Qualifying :
                    \E r \in FilledRows : kds_src.rows[r] = gpupreagg_projection(cfg, i)

\* preparation is over, both groups had a surviving row and the second
\* group made its reservation first
C19_Witness ==
    /\ stage = "preparation"
    /\ \A w \in WorkItems(cfg) : wk[w].pc = "exit"
    /\ Cardinality(Qualifying) = MaxRows
    /\ cfg.src_nrooms >= MaxRows
    /\ \E g \in WorkGroups(cfg) : g > 0 /\ grp[g].nitems > 0 /\ grp[g].base = 0
    /\ grp[0].base > 0


(***************************************************************************)
(* The table of local reduction                                            *)
(***************************************************************************)
\* C20: in local reduction the reservation protocol stays within the
\* work-group: the owner_index a work-item leaves the compare-and-swap loop
\* with is a local id (the index space of the owner test of line 616 and of
\* l_datum), and no two work-items of different work-groups end their loops
\* on the same slot, one claiming it and the other adopting it
C20_LocalTableScoped ==
    \A w \in DOMAIN wk :
        (stage = "local_reduction" /\ wk[w].pc = "bar2" /\ w < kds_src.nitems) =>
            /\ wk[w].owner_index \in 0..(cfg.localSize - 1)
            /\ \A v \in DOMAIN wk :
                  (/\ wk[v].pc = "bar2" /\ v < kds_src.nitems
                   /\ get_group_id(cfg, v) # get_group_id(cfg, w)) =>
                      LocalProbeSlot(v) # LocalProbeSlot(w)

\* a work-item of the second work-group has adopted the slot that a
\* work-item of the first claimed, all resets being over
C20_AcrossGroups ==
    /\ stage = "local_reduction"
    /\ \A w \in DOMAIN wk : wk[w].pc \in {"probe", "bar2"}
    /\ \E v \in Members(cfg, 0), w \in Members(cfg, 1) :
          /\ wk[v].pc = "bar2" /\ wk[w].pc = "bar2"
          /\ w < kds_src.nitems
          /\ LocalProbeSlot(v) = LocalProbeSlot(w)
          /\ g_hashslot[LocalProbeSlot(v)].index = v
          /\ wk[w].owner_index = v


(***************************************************************************)
(* The reset of the hash table                                             *)
(***************************************************************************)
\* a slot that a work-item claimed by compare-and-swap: both fields written
Claimed(slot) == slot.index # ALL_ONES /\ slot.hash # 0
\* no work-item of the running kernel has yet taken a step
KernelAtStart ==
    \A w \in DOMAIN wk : wk[w] = KernelStart(cfg, stage, w)

\* C21: the table a reduction stage probes is empty before the stage's
\* first claim and is not reset while claims are in flight: when global
\* reduction starts every slot of g_hashslot is empty, and no step of a
\* reduction stage turns a claimed slot into anything else
C21_TableEmptyAndNotResetInFlight ==
    /\ []((stage = "global_reduction" /\ KernelAtStart) =>
             \A i \in DOMAIN g_hashslot : g_hashslot[i] = EmptySlot)
    /\ [][(stage \in {"local_reduction", "global_reduction"} /\ stage' = stage) =>
             \A i \in DOMAIN g_hashslot :
                 Claimed(g_hashslot[i]) => g_hashslot'[i] = g_hashslot[i]]_vars

\* global reduction is about to start on a table that still holds a slot
\* claimed in local reduction
C21_StaleAtGlobalStart ==
    /\ stage = "global_reduction" /\ KernelAtStart
    /\ \E i \in DOMAIN g_hashslot : Claimed(g_hashslot[i])


(***************************************************************************)
(* The reservation of local reduction                                      *)
(***************************************************************************)
\* the rows of kds_src that the work-items of group g stand for
GroupRows(g) == {w \in Members(cfg, g) : w < kds_src.nitems}
\* group g is past its atomic_add of line 619
LocalReserved(g) ==
    /\ stage = "local_reduction"
    /\ \A w \in Members(cfg, g) : wk[w].pc \in {"column", "merge", "bar3", "exit"}

\* C22: in local reduction every work-group, the first or not, reserves as
\* many rows of kds_dst as there are distinct grouping keys among its rows
\* of kds_src, and the work-items that pass the owner test have pairwise
\* distinct destination indexes base_index + prefix inside the block
C22_LocalReservationPerGroup ==
    \A g \in WorkGroups(cfg) :
        LocalReserved(g) =>
            /\ grp[g].nitems = Cardinality({SrcKey(w) : w \in GroupRows(g)})
            /\ \A w \in Members(cfg, g) :
                  LocalIsOwner(w) =>
                     /\ grp[g].base + wk[w].offset \in
                           grp[g].base..(grp[g].base + grp[g].nitems - 1)
                     /\ \A v \in Members(cfg, g) :
                           (LocalIsOwner(v) /\ v # w) => wk[v].offset # wk[w].offset

\* the second work-group has a row, its work-item claimed a slot of its own
\* after every reset was over, and the group reserved no row
C22_SecondGroupReservesNothing ==
    /\ LocalReserved(1)
    /\ GroupRows(1) # {}
    /\ \E w \in GroupRows(1) :
          /\ wk[w].owner_index = w
          /\ g_hashslot[LocalProbeSlot(w)] = [hash |-> wk[w].hash_value, index |-> w]
    /\ grp[1].nitems = 0


(***************************************************************************)
(* Barriers                                                                *)
(***************************************************************************)
\* the positions of a kernel from which a barrier is still to be passed:
\* all of preparation up to kern_writeback_error_status, all of local
\* reduction, and global reduction up to the capacity check; the reset
\* kernel has no barrier
BarrierAhead(s) ==
    CASE s = "preparation" -> {"start", "check", "out"}
      [] s = "local_reduction" ->
            {"reset_hash", "reset_index", "bar1", "probe", "bar2", "column",
             "merge", "bar3"}
      [] s = "global_reduction" -> {"start", "probe", "bar2"}
      [] OTHER -> {}
\* every work-item of group g left with the NoSpace error
LeftForNoSpace(g) ==
    \A w \in Members(cfg, g) :
        wk[w].pc = "exit" /\ wk[w].errcode = StromError_DataStoreNoSpace

PhaseSize == 3

\* the grouping keys of the rows: the first row's key is 1, the others' 1 or 3
PhaseKeyPatterns ==
    {ks \in [0..(PhaseSize - 1) -> {1, 3}] : ks[0] = 1}

\* a grouping key and two aggregate columns, rows for every work-item or
\* for all but the last
PhaseConfigs ==
    {[nitems_in |-> n,
      rows_in |-> [i \in 0..(PhaseSize - 1) |->
                      [key |-> ks[i], val |-> ValueOf(i), qual |-> "pass"]],
      ncols |-> 3,
      atts |-> [a \in 0..2 |-> IF a = 0 THEN GPUPREAGG_FIELD_IS_GROUPKEY
                               ELSE GPUPREAGG_FIELD_IS_AGGFUNC],
      attlen |-> [a \in 0..2 |-> SizeofShort],
      op |-> op,
      src_nrooms |-> PhaseSize, dst_nrooms |-> PhaseSize,
      hash_size |-> 2 * PhaseSize,
      localSize |-> PhaseSize, ngroups |-> 1] :
        n \in {PhaseSize - 1, PhaseSize}, ks \in PhaseKeyPatterns, op \in AggOps}

\* the work-items are past the barrier of line 540; seen is the accumulator
\* a merge has read and not yet written back
InitPhase ==
    /\ calc = CalcIdle
    /\ srt = SortIdle
    /\ cfg \in PhaseConfigs
    /\ stage = "local_reduction"
    /\ status = StromError_Success
    /\ krowmap = [nvalids |-> 0,
                  rindex |-> [i \in 0..(cfg.dst_nrooms - 1) |-> ALL_ONES]]
    /\ kds_src = [nitems |-> cfg.nitems_in,
                  rows |-> [r \in 0..(cfg.src_nrooms - 1) |->
                              IF r < cfg.nitems_in THEN gpupreagg_projection(cfg, r)
                              ELSE NoRow(cfg)]]
    /\ kds_dst = [nitems |-> 0, rows |-> [r \in 0..(cfg.dst_nrooms - 1) |-> NoRow(cfg)]]
    /\ g_hashslot = [i \in 0..(cfg.hash_size - 1) |-> EmptySlot]
    /\ wk = [w \in WorkItems(cfg) |-> WorkItemStart("l_reset") @@ [seen |-> Garbage]]
    /\ grp = [g \in WorkGroups(cfg) |-> LocalStart(cfg)]

\* a barrier that whoever arrives passes at once
PhaseBarrierOpen_NoWait(g, pc) == \E w \in Members(cfg, g) : wk[w].pc = pc

\* barrier(CLK_LOCAL_MEM_FENCE): it opens when every work-item of the
\* work-group has arrived
PhaseBarrierOpen(g, pc) == AllAt(cfg, g, pc)

\* the barriers of lines 608, 671, 683 and 697: where the work-items wait
\* and where they go on
PhaseBarriers ==
    {<<"bar2", "stair">>, <<"bar671", "merge">>, <<"bar683", "store">>,
     <<"bar697", "column">>}

\* lines 557-564: work-item w resets its slots of l_hashslot, which the
\* kernel does not read again
PhaseResetLocal(w) ==
    /\ stage = "local_reduction"
    /\ wk[w].pc = "l_reset"
    /\ wk' = [wk EXCEPT ![w].pc = "bar1"]
    /\ UNCHANGED <<calcVars, sortVars, cfg, stage, status, krowmap, kds_src, kds_dst, g_hashslot, grp>>

\* the work-items waiting at a barrier of group g go on; past the barrier
\* of line 697 comes the loop's attnum++
PhaseBarrier(g) ==
    /\ stage = "local_reduction"
    /\ \E b \in PhaseBarriers :
          /\ PhaseBarrierOpen(g, b[1])
          /\ wk' = [w \in WorkItems(cfg) |->
                      IF w \in Members(cfg, g) /\ wk[w].pc = b[1]
                      THEN [wk[w] EXCEPT !.pc = b[2],
                                         !.attnum = IF b[1] = "bar697" THEN @ + 1 ELSE @]
                      ELSE wk[w]]
    /\ UNCHANGED <<calcVars, sortVars, cfg, stage, status, krowmap, kds_src, kds_dst, g_hashslot, grp>>

\* lines 616-626: the stairlike add on the scratch memory, the atomic_add
\* of work-item 0, the barrier of line 620 and the capacity check
PhaseReserve(g) ==
    /\ stage = "local_reduction"
    /\ AllAt(cfg, g, "stair")
    /\ LET flag == [w \in WorkItems(cfg) |-> LocalIsOwner(w)]
           ngroups == StairlikeTotal(cfg, g, flag)
           base_index == kds_dst.nitems
       IN  /\ kds_dst' = [kds_dst EXCEPT !.nitems = @ + ngroups]
           /\ grp' = [grp EXCEPT ![g].base = base_index, ![g].nitems = ngroups]
           /\ wk' = [w \in WorkItems(cfg) |->
                       IF w \in Members(cfg, g)
                       THEN IF LocalNoSpace(w, base_index, ngroups)
                            THEN [wk[w] EXCEPT !.errcode = StromError_DataStoreNoSpace,
                                               !.offset = StairlikeOffset(cfg, w, flag),
                                               !.pc = "exit"]
                            ELSE [wk[w] EXCEPT !.offset = StairlikeOffset(cfg, w, flag),
                                               !.dest_index = base_index
                                                   + StairlikeOffset(cfg, w, flag),
                                               !.attnum = 0,
                                               !.pc = "column"]
                       ELSE wk[w]]
    /\ UNCHANGED <<calcVars, sortVars, cfg, stage, status, krowmap, kds_src, g_hashslot>>

\* lines 640-670: work-item w at the head of the loop.  Past the last
\* column it leaves; a grouping key or unused column it moves if it is an
\* owner, and goes on without a barrier; of an aggregate column it loads
\* its row's value to its accumulator and waits at the barrier of line 671
PhaseColumn(w) ==
    /\ stage = "local_reduction"
    /\ wk[w].pc = "column"
    /\ LET a == wk[w].attnum
           g == get_group_id(cfg, w)
           l == get_local_id(cfg, w)
       IN  IF a >= cfg.ncols
           THEN /\ wk' = [wk EXCEPT ![w].pc = "exit"]
                /\ UNCHANGED <<kds_dst, grp>>
           ELSE IF cfg.atts[a] # GPUPREAGG_FIELD_IS_AGGFUNC
           THEN /\ kds_dst' = IF LocalIsOwner(w)
                              THEN gpupreagg_data_move(cfg, kds_src, kds_dst, a, w,
                                                       wk[w].dest_index)
                              ELSE kds_dst
                /\ wk' = [wk EXCEPT ![w].attnum = a + 1]
                /\ UNCHANGED grp
           ELSE LET ld == IF w < kds_src.nitems
                          THEN gpupreagg_data_load(cfg, grp[g].l_datum[l],
                                                   wk[w].errcode, kds_src, a, w)
                          ELSE [datum |-> grp[g].l_datum[l], errcode |-> wk[w].errcode]
                IN  /\ grp' = [grp EXCEPT ![g].l_datum[l] = ld.datum]
                    /\ wk' = [wk EXCEPT ![w].errcode = ld.errcode, ![w].pc = "bar671"]
                    /\ UNCHANGED kds_dst
    /\ UNCHANGED <<calcVars, sortVars, cfg, stage, status, krowmap, kds_src, g_hashslot>>

\* lines 675-682, first half: a work-item with a row that is not its own
\* owner reads the owner's accumulator; any other goes to the barrier of
\* line 683
PhaseMergeRead(w) ==
    /\ stage = "local_reduction"
    /\ wk[w].pc = "merge"
    /\ LET g == get_group_id(cfg, w)
           o == wk[w].owner_index
       IN  IF w < kds_src.nitems /\ w # o
           THEN IF o \in DOMAIN grp[g].l_datum
                THEN /\ wk' = [wk EXCEPT ![w].seen = grp[g].l_datum[o],
                                         ![w].pc = "merge_w"]
                     /\ UNCHANGED grp
                ELSE /\ grp' = [grp EXCEPT ![g].overrun = TRUE]
                     /\ wk' = [wk EXCEPT ![w].pc = "bar683"]
           ELSE /\ wk' = [wk EXCEPT ![w].pc = "bar683"]
                /\ UNCHANGED grp
    /\ UNCHANGED <<calcVars, sortVars, cfg, stage, status, krowmap, kds_src, kds_dst, g_hashslot>>

\* lines 675-682, second half: the work-item writes the merge of what it
\* read and its own accumulator to the owner's accumulator
PhaseMergeWrite(w) ==
    /\ stage = "local_reduction"
    /\ wk[w].pc = "merge_w"
    /\ LET g == get_group_id(cfg, w)
           o == wk[w].owner_index
           r == MergeDatum(cfg.op, wk[w].errcode, wk[w].seen,
                           grp[g].l_datum[get_local_id(cfg, w)])
       IN  /\ grp' = [grp EXCEPT ![g].l_datum[o] = r.accum]
           /\ wk' = [wk EXCEPT ![w].errcode = r.errcode, ![w].pc = "bar683"]
    /\ UNCHANGED <<calcVars, sortVars, cfg, stage, status, krowmap, kds_src, kds_dst, g_hashslot>>

\* lines 685-696: an owner stores its accumulator to the row it reserved;
\* every work-item then waits at the barrier of line 697
PhaseStore(w) ==
    /\ stage = "local_reduction"
    /\ wk[w].pc = "store"
    /\ LET g == get_group_id(cfg, w)
           r == IF LocalIsOwner(w)
                THEN gpupreagg_data_store(cfg, grp[g].l_datum[wk[w].owner_index],
                                          wk[w].errcode, kds_dst, wk[w].attnum,
                                          wk[w].dest_index)
                ELSE [kds |-> kds_dst, errcode |-> wk[w].errcode]
       IN  /\ kds_dst' = r.kds
           /\ wk' = [wk EXCEPT ![w].errcode = r.errcode, ![w].pc = "bar697"]
    /\ UNCHANGED <<calcVars, sortVars, cfg, stage, status, krowmap, kds_src, g_hashslot, grp>>

NextPhase ==
    \/ \E w \in WorkItems(cfg) : PhaseResetLocal(w)
    \/ \E g \in WorkGroups(cfg) : LocalHash(g)
    \/ \E w \in WorkItems(cfg) : LocalProbe(w)
    \/ \E g \in WorkGroups(cfg) : PhaseBarrier(g)
    \/ \E g \in WorkGroups(cfg) : PhaseReserve(g)
    \/ \E w \in WorkItems(cfg) : PhaseColumn(w)
    \/ \E w \in WorkItems(cfg) : PhaseMergeRead(w)
    \/ \E w \in WorkItems(cfg) : PhaseMergeWrite(w)
    \/ \E w \in WorkItems(cfg) : PhaseStore(w)

SpecPhase == InitPhase /\ [][NextPhase]_vars


(***************************************************************************)
(* The phases of the scratch memory                                        *)
(***************************************************************************)
\* where a work-item is while l_hashslot is the scratch memory's content,
\* and where it is once the prefix sum or an accumulator has been written
HashPhase == {"l_reset", "bar1", "probe"}
ReusePhase == {"stair", "column", "bar671", "merge", "merge_w", "bar683",
               "store", "bar697"}

\* C24: in local reduction the phases of the scratch memory are separated
\* by barriers: no work-item is at the prefix sum or the accumulators while
\* another of its group is still at the hash slots; while a work-item
\* merges no other is still to load the column or already stores it; and
\* while a work-item merges or stores column k no other is at another
\* column, so that no load of column k+1 overwrites an accumulator of k
C24_BarrierSeparatedPhases ==
    \A g \in WorkGroups(cfg) :
        \A v, w \in Members(cfg, g) :
            /\ wk[v].pc \in HashPhase => wk[w].pc \notin ReusePhase
            /\ wk[v].pc \in {"merge", "merge_w"} =>
                  wk[w].pc \notin {"column", "store", "bar697"}
            /\ wk[v].pc \in {"merge", "merge_w", "bar683", "store"} =>
                  /\ wk[w].attnum = wk[v].attnum
                  /\ wk[w].pc \notin {"column", "exit"}

\* the last aggregate column: one work-item is between the read and the
\* write of its merge, another has done its own and waits at the barrier
C24_Witness ==
    \E v, w \in WorkItems(cfg) :
        /\ wk[v].pc = "merge_w" /\ wk[w].pc = "bar683"
        /\ wk[v].attnum = cfg.ncols - 1 /\ wk[w].attnum = cfg.ncols - 1
        /\ w < kds_src.nitems /\ wk[w].owner_index # w


(***************************************************************************)
(* Concurrent merges into one accumulator                                  *)
(***************************************************************************)
\* the work-items with a row that defer to owner o
Deferring(o) ==
    {w \in WorkItems(cfg) : w < kds_src.nitems /\ wk[w].owner_index = o /\ w # o}

RECURSIVE MergeRows(_, _, _)
\* column a of the rows of ws merged into acc, one row after another
MergeRows(acc, ws, a) ==
    IF ws = {} THEN acc
    ELSE LET w == CHOOSE v \in ws : \A u \in ws : v <= u
         IN  MergeRows(MergeDatum(cfg.op, StromError_Success, acc,
                                  ColOf(kds_src, w, a)).accum,
                       ws \ {w}, a)

RowMaps(c) ==
    {[nvalids |-> -1, rindex |-> [i \in 0..(c.nitems_in - 1) |-> ALL_ONES]]}
    \cup
    UNION {{[nvalids |-> nv, rindex |-> ri] :
               ri \in {r \in [0..(c.nitems_in - 1) -> (0..c.nitems_in) \cup {ALL_ONES}] :
                         \A i \in 0..(c.nitems_in - 1) :
                             (i < nv) <=> (r[i] # ALL_ONES)}} :
           nv \in 0..c.nitems_in}

\* one grouping key, the first row passing the qualifier, failing it or
\* raising an error, kds_src with room for every row
PrepMapConfigs ==
    {[nitems_in |-> MaxRows,
      rows_in |-> [i \in 0..(MaxRows - 1) |->
                      [key |-> 1, val |-> ValueOf(i), qual |-> qs[i]]],
      ncols |-> 2,
      atts |-> [a \in 0..1 |-> IF a = 0 THEN GPUPREAGG_FIELD_IS_GROUPKEY
                               ELSE GPUPREAGG_FIELD_IS_AGGFUNC],
      attlen |-> [a \in 0..1 |-> SizeofShort],
      op |-> "PSUM",
      src_nrooms |-> MaxRows + 1, dst_nrooms |-> MaxRows + 1,
      hash_size |-> 2 * LocalSize,
      localSize |-> LocalSize, ngroups |-> NumGroups] :
        qs \in QualPatterns}

InitPrepMap ==
    /\ calc = CalcIdle
    /\ srt = SortIdle
    /\ cfg \in PrepMapConfigs
    /\ stage = "preparation"
    /\ status = StromError_Success
    /\ krowmap \in RowMaps(cfg)
    /\ kds_src = [nitems |-> 0, rows |-> [r \in 0..(cfg.src_nrooms - 1) |-> NoRow(cfg)]]
    /\ kds_dst = [nitems |-> 0, rows |-> [r \in 0..(cfg.dst_nrooms - 1) |-> NoRow(cfg)]]
    /\ g_hashslot = [i \in 0..(cfg.hash_size - 1) |-> EmptySlot]
    /\ wk = [w \in WorkItems(cfg) |-> KernelStart(cfg, "preparation", w)]
    /\ grp = [g \in WorkGroups(cfg) |-> LocalStart(cfg)]

SpecPrepMap == InitPrepMap /\ [][NextPrep]_vars

\* the input row the row map gives work-item w, if any: its global id
\* under the identity map, entry w of rindex below nvalids
MappedRows(w) ==
    IF krowmap.nvalids < 0 THEN {w}
    ELSE IF w < krowmap.nvalids THEN {krowmap.rindex[w]}
    ELSE {}
\* the row of work-item w that is a row of the input batch and passes the
\* qualifier
RowsToProject(w) ==
    {r \in MappedRows(w) :
        r \in 0..(cfg.nitems_in - 1) /\ cfg.rows_in[r].qual = "pass"}
\* group g is past its capacity check and had the room it reserved
Projected(g) ==
    /\ \A w \in Members(cfg, g) : wk[w].pc \in {"out", "exit"}
    /\ \A w \in Members(cfg, g) : wk[w].errcode # StromError_DataStoreNoSpace

\* C26: in preparation a work-item has at most one input row, its global
\* id under the identity row map, rindex[global id] when the global id is
\* below nvalids, none otherwise; a work-group reserves one row of kds_src
\* for each of its work-items whose row is inside the input batch and
\* passes the qualifier, these rows are projected to the rows reserved, and
\* no other row of kds_src is written
C26_PreparationRowMapping ==
    stage = "preparation" =>
        /\ \A w \in WorkItems(cfg) : Cardinality(MappedRows(w)) <= 1
        /\ \A g \in WorkGroups(cfg) :
              Reserved(g) =>
                  grp[g].nitems =
                      Cardinality({w \in Members(cfg, g) : RowsToProject(w) # {}})
        /\ \A g \in WorkGroups(cfg) :
              Projected(g) =>
                  \A w \in Members(cfg, g) : \A r \in RowsToProject(w) :
                      kds_src.rows[grp[g].base + wk[w].offset] =
                          gpupreagg_projection(cfg, r)
        /\ FilledRows =
              UNION {Block(g) : g \in {h \in WorkGroups(cfg) : Projected(h)}}

\* preparation is over under a row map that is not the identity: a
\* work-item projected a row other than its global id's, another had an
\* entry past the input batch and projected nothing
C26_Witness ==
    /\ stage = "preparation"
    /\ \A w \in WorkItems(cfg) : wk[w].pc = "exit"
    /\ krowmap.nvalids >= 2
    /\ \E v, w \in WorkItems(cfg) :
          /\ v < krowmap.nvalids /\ w < krowmap.nvalids
          /\ RowsToProject(w) # {} /\ krowmap.rindex[w] # w
          /\ Projected(get_group_id(cfg, w))
          /\ krowmap.rindex[v] = cfg.nitems_in


(***************************************************************************)
(* What global reduction writes                                            *)
(***************************************************************************)
\* row r of kds_dst is the row of a work-item that is its own owner
GlobalOwnerRow(r) ==
    r \in WorkItems(cfg) /\ r < kds_dst.nitems /\ GlobalIsOwner(r)

\* C27: a step of global reduction leaves kds_dst->nitems as it is and
\* changes no column of kds_dst other than an aggregate column of the row
\* of an owner: grouping keys and unused columns, and every row that is
\* not an owner's (a row that deferred to an owner among them), stay as
\* they are
C27_GlobalWritesOwnerAggregatesOnly ==
    [][(stage = "global_reduction" /\ stage' = stage) =>
          /\ kds_dst'.nitems = kds_dst.nitems
          /\ \A r \in DOMAIN kds_dst.rows : \A a \in Cols(cfg) :
                kds_dst'.rows[r][a] # kds_dst.rows[r][a] =>
                    (a \in AggCols(cfg) /\ GlobalOwnerRow(r))]_vars

\* a work-item of global reduction is about to merge its row into a row
\* that is no owner's: it took the owner_index from a slot that local
\* reduction had left in the table
C27_MergeIntoNonOwner ==
    /\ stage = "global_reduction"
    /\ \E w \in WorkItems(cfg) :
          /\ wk[w].pc = "column" /\ w < kds_dst.nitems
          /\ wk[w].attnum <= 1
          /\ ~GlobalIsOwner(w)
          /\ wk[w].owner_index \in DOMAIN kds_dst.rows
          /\ ~GlobalOwnerRow(wk[w].owner_index)


(***************************************************************************)
(* What local reduction writes for grouping keys and unused columns        *)
(***************************************************************************)
\* work-item w has a row and won its slot: its compare-and-swap succeeded
LocalWonSlot(w) == w < kds_src.nitems /\ wk[w].owner_index = w

\* C28: a step of local reduction never changes kds_src, and changes a
\* grouping-key or unused column of a row of kds_dst only as the copy by an
\* owner (a work-item that won its slot) of that column of its own row of
\* kds_src to the row it reserved; work-items that deferred to an owner or
\* have no row write nothing there
C28_OnlyOwnersMoveKeys ==
    [][(stage = "local_reduction" /\ stage' = stage) =>
          /\ kds_src' = kds_src
          /\ \A r \in DOMAIN kds_dst.rows : \A a \in Cols(cfg) \ AggCols(cfg) :
                kds_dst'.rows[r][a] # kds_dst.rows[r][a] =>
                    \E w \in WorkItems(cfg) :
                        /\ LocalWonSlot(w)
                        /\ wk[w].dest_index = r
                        /\ kds_dst'.rows[r][a] = ColOf(kds_src, w, a)]_vars

\* a work-item of the second work-group deferred to a work-item of the
\* first, passes the owner test of line 650 all the same, and is about to
\* move its grouping key
C28_DeferringWorkItemMoves ==
    /\ stage = "local_reduction"
    /\ \E w \in Members(cfg, 1) :
          /\ wk[w].pc = "column" /\ grp[1].attnum = 0
          /\ w < kds_src.nitems
          /\ wk[w].owner_index # w
          /\ LocalIsOwner(w)


(***************************************************************************)
(* gpupreagg_global_preparation alone                                      *)
(***************************************************************************)
\* the largest table reset
ResetSlots == 5

\* what a slot outside the table, or one not yet reset, holds
StaleSlot == [hash |-> 5, index |-> 0]

\* grids of one or more work-groups of one or more work-items and tables of
\* one slot or more, smaller and larger than the grid
ResetConfigs ==
    {[nitems_in |-> 0, ncols |-> 1, src_nrooms |-> 0, dst_nrooms |-> 0,
      hash_size |-> hs, localSize |-> ls, ngroups |-> ng] :
        hs \in 1..ResetSlots, ls \in 1..LocalSize, ng \in 1..NumGroups}

\* the buffer of the table goes one slot beyond hash_size; every slot holds
\* what an earlier kernel left, and so does nvalids
InitReset ==
    /\ calc = CalcIdle
    /\ srt = SortIdle
    /\ cfg \in ResetConfigs
    /\ stage = "global_preparation"
    /\ status = StromError_Success
    /\ krowmap \in {[nvalids |-> nv, rindex |-> <<>>] : nv \in {-1, 2}}
    /\ kds_src = [nitems |-> 0, rows |-> <<>>]
    /\ kds_dst = [nitems |-> 0, rows |-> <<>>]
    /\ g_hashslot = [i \in 0..cfg.hash_size |-> StaleSlot]
    /\ wk = [w \in WorkItems(cfg) |-> KernelStart(cfg, "global_preparation", w)]
    /\ grp = [g \in WorkGroups(cfg) |-> LocalStart(cfg)]

NextReset ==
    \/ \E w \in WorkItems(cfg) : GlobalPrepResetHash(w)
    \/ \E w \in WorkItems(cfg) : GlobalPrepResetIndex(w)

SpecReset == InitReset /\ [][NextReset]_vars

\* C29: the reset writes no slot outside 0..hash_size-1, and when every
\* work-item has run gpupreagg_global_preparation every slot of
\* 0..hash_size-1 holds hash 0 and index all ones and nvalids is 0,
\* whatever the number of work-items and the size of the table
C29_ResetLeavesTableEmpty ==
    stage = "global_preparation" =>
        /\ \A i \in DOMAIN g_hashslot :
              i >= cfg.hash_size => g_hashslot[i] = StaleSlot
        /\ KernelDone =>
              /\ \A i \in 0..(cfg.hash_size - 1) :
                    g_hashslot[i].hash = 0 /\ g_hashslot[i].index = ALL_ONES
              /\ krowmap.nvalids = 0

\* the reset is over for a table of more slots than there are work-items,
\* and not a multiple of their number
C29_Witness ==
    /\ stage = "global_preparation"
    /\ KernelDone
    /\ GlobalSize(cfg) > 1
    /\ cfg.hash_size > GlobalSize(cfg)
    /\ cfg.hash_size % GlobalSize(cfg) # 0
    /\ g_hashslot[cfg.hash_size - 1] = EmptySlot


(***************************************************************************)
(* gpupreagg_reduction: the reduction over a sorted rindex                 *)
(*                                                                         *)
(* Between two barriers the work-items of a work-group write disjoint      *)
(* entries of l_data (a merging work-item writes the value of its target   *)
(* and its own group_id, and no other work-item of the round has either as *)
(* its own entry or target), so each stretch is one step of the group.     *)
(* gpupreagg_aggcalc is the merge operator of the column.                  *)
(***************************************************************************)
INVALID_GROUPID == -1

\* rows of the sorted batch, its grouping keys and the work-group sizes (the
\* size of a work-group is expected to be a power of 2, line 1049)
MaxRunRows == 4
RunKeys == 1..3
RunLocalSizes == {2, 4}

\* rindex as the sort leaves it: the rows in the order of their keys, rows
\* of equal keys in the order of their indexes
SortedRindex(ks, n) ==
    [i \in 0..(n - 1) |->
        CHOOSE r \in 0..(n - 1) :
            Cardinality({q \in 0..(n - 1) :
                            ks[q] < ks[r] \/ (ks[q] = ks[r] /\ q < r)}) = i]

RunConfigs ==
    {[nitems_in |-> n,
      rows_in |-> [i \in 0..(MaxRunRows - 1) |->
                      [key |-> ks[i], val |-> ValueOf(i), qual |-> "pass"]],
      ncols |-> 2,
      atts |-> [a \in 0..1 |-> IF a = 0 THEN GPUPREAGG_FIELD_IS_GROUPKEY
                               ELSE GPUPREAGG_FIELD_IS_AGGFUNC],
      attlen |-> [a \in 0..1 |-> SizeofShort],
      op |-> op,
      src_nrooms |-> MaxRunRows, dst_nrooms |-> MaxRunRows,
      hash_size |-> 1,
      localSize |-> ls, ngroups |-> 2,
      rindex |-> SortedRindex(ks, n)] :
        n \in 1..MaxRunRows,
        ks \in [0..(MaxRunRows - 1) -> RunKeys],
        ls \in RunLocalSizes, op \in AggOps}

\* kds_src holds the rows, rows that are not in the batch having key 1;
\* groupID and isNewID are private to the work-item, group_id is the field
\* of its entry of l_data, unit the unitSize of the round
InitRun ==
    /\ calc = CalcIdle
    /\ srt = SortIdle
    /\ cfg \in {c \in RunConfigs :
                  \A i \in c.nitems_in..(MaxRunRows - 1) : c.rows_in[i].key = 1}
    /\ stage = "reduction"
    /\ status = StromError_Success
    /\ krowmap = [nvalids |-> -1, rindex |-> <<>>]
    /\ kds_src = [nitems |-> cfg.nitems_in,
                  rows |-> [r \in 0..(cfg.src_nrooms - 1) |->
                              IF r < cfg.nitems_in THEN gpupreagg_projection(cfg, r)
                              ELSE NoRow(cfg)]]
    /\ kds_dst = [nitems |-> 0, rows |-> [r \in 0..(cfg.dst_nrooms - 1) |-> NoRow(cfg)]]
    /\ g_hashslot = [i \in 0..(cfg.hash_size - 1) |-> EmptySlot]
    /\ wk = [w \in WorkItems(cfg) |->
                WorkItemStart("start") @@ [groupID |-> 0, isNewID |-> 0]]
    /\ grp = [g \in WorkGroups(cfg) |->
                LocalStart(cfg) @@
                [group_id |-> [l \in 0..(cfg.localSize - 1) |-> INVALID_GROUPID],
                 unit |-> 0]]

\* lines 889-894: localEntry of partition prtID, prtSize being localSize
RunLocalEntry(prtID, localSize, nrows) ==
    LET prtPos == prtID * localSize
    IN  IF prtPos + localSize < nrows THEN localSize ELSE nrows - prtPos

\* lines 905-939: a work-group without rows leaves; else each work-item
\* finds whether its row opens a run (isNewID), the stairlike add numbers
\* the runs (groupID) and counts them (ngroups), work-item 0 reserves
\* ngroups rows of kds_dst, and after the barrier comes the capacity check
RunStart(g) ==
    /\ stage = "reduction"
    /\ AllAt(cfg, g, "start")
    /\ LET localEntry == RunLocalEntry(g, cfg.localSize, kds_src.nitems)
           isNewID == [w \in WorkItems(cfg) |->
                         IF get_local_id(cfg, w) = 0 THEN 1
                         ELSE IF get_local_id(cfg, w) < localEntry
                         THEN IF gpupreagg_keycomp(cfg, kds_src, cfg.rindex[w - 1],
                                                   cfg.rindex[w]) = {0}
                              THEN 0 ELSE 1
                         ELSE 0]
           flag == [w \in WorkItems(cfg) |-> isNewID[w] = 1]
           ngroups == StairlikeTotal(cfg, g, flag)
           base == kds_dst.nitems
       IN  IF localEntry <= 0
           THEN /\ wk' = [w \in WorkItems(cfg) |->
                            IF w \in Members(cfg, g) THEN [wk[w] EXCEPT !.pc = "out"]
                            ELSE wk[w]]
                /\ UNCHANGED <<kds_dst, grp>>
           ELSE /\ kds_dst' = [kds_dst EXCEPT !.nitems = @ + ngroups]
                /\ grp' = [grp EXCEPT ![g].base = base, ![g].nitems = ngroups,
                                      ![g].attnum = 0]
                /\ wk' = [w \in WorkItems(cfg) |->
                            IF w \in Members(cfg, g)
                            THEN [wk[w] EXCEPT
                                    !.isNewID = isNewID[w],
                                    !.groupID = StairlikeOffset(cfg, w, flag)
                                                   + isNewID[w] - 1,
                                    !.errcode = IF cfg.dst_nrooms < base + ngroups
                                                THEN StromError_DataStoreNoSpace
                                                ELSE @,
                                    !.pc = IF cfg.dst_nrooms < base + ngroups
                                           THEN "out" ELSE "column"]
                            ELSE wk[w]]
    /\ UNCHANGED <<calcVars, sortVars, cfg, stage, status, krowmap, kds_src, g_hashslot>>

RECURSIVE RunMoveAll(_, _, _)
\* lines 952-955: the moves of column a by the work-items of ws
RunMoveAll(ws, dst, a) ==
    IF ws = {} THEN dst
    ELSE LET w == CHOOSE v \in ws : \A u \in ws : v <= u
             g == get_group_id(cfg, w)
         IN  RunMoveAll(ws \ {w},
                        gpupreagg_data_move(cfg, kds_src, dst, a, cfg.rindex[w],
                                            grp[g].base + wk[w].groupID), a)

\* lines 942-971: the next column.  Past the last the group goes to the
\* write-back of the status; a grouping key or unused column is moved by
\* the work-items that open a run; of an aggregate column every work-item
\* with a row loads the value to its entry of l_data and sets the entry's
\* group_id, the others' group_id being invalid; then the barrier
RunColumn(g) ==
    /\ stage = "reduction"
    /\ AllAt(cfg, g, "column")
    /\ LET a == grp[g].attnum
           localEntry == RunLocalEntry(g, cfg.localSize, kds_src.nitems)
           base_w == g * cfg.localSize
       IN  IF a >= cfg.ncols
           THEN /\ wk' = [w \in WorkItems(cfg) |->
                            IF w \in Members(cfg, g) THEN [wk[w] EXCEPT !.pc = "out"]
                            ELSE wk[w]]
                /\ UNCHANGED <<kds_dst, grp>>
           ELSE IF cfg.atts[a] # GPUPREAGG_FIELD_IS_AGGFUNC
           THEN /\ kds_dst' = RunMoveAll({w \in Members(cfg, g) : wk[w].isNewID = 1},
                                         kds_dst, a)
                /\ grp' = [grp EXCEPT ![g].attnum = a + 1]
                /\ UNCHANGED wk
           ELSE LET ld == [l \in 0..(cfg.localSize - 1) |->
                             IF l < localEntry
                             THEN gpupreagg_data_load(cfg, grp[g].l_datum[l],
                                      wk[base_w + l].errcode, kds_src, a,
                                      cfg.rindex[base_w + l])
                             ELSE [datum |-> grp[g].l_datum[l],
                                   errcode |-> wk[base_w + l].errcode]]
                IN  /\ grp' = [grp EXCEPT
                          ![g].l_datum = [l \in 0..(cfg.localSize - 1) |-> ld[l].datum],
                          ![g].group_id = [l \in 0..(cfg.localSize - 1) |->
                                             IF l < localEntry
                                             THEN wk[base_w + l].groupID
                                             ELSE INVALID_GROUPID],
                          ![g].unit = 2]
                    /\ wk' = [w \in WorkItems(cfg) |->
                                IF w \in Members(cfg, g)
                                THEN [wk[w] EXCEPT
                                        !.errcode = ld[get_local_id(cfg, w)].errcode,
                                        !.pc = IF 2 <= cfg.localSize
                                               THEN "down" ELSE "store"]
                                ELSE wk[w]]
                    /\ UNCHANGED kds_dst
    /\ UNCHANGED <<calcVars, sortVars, cfg, stage, status, krowmap, kds_src, g_hashslot>>

\* the entries of l_data and the group_ids after the work-items of movers
\* have each merged their entry into the entry at distance step and made
\* their own group_id invalid
RunMerged(g, movers, step) ==
    [l_datum |-> [d \in 0..(cfg.localSize - 1) |->
                     IF (d - step) \in movers
                     THEN MergeDatum(cfg.op, StromError_Success,
                                     grp[g].l_datum[d], grp[g].l_datum[d - step]).accum
                     ELSE grp[g].l_datum[d]],
     group_id |-> [l \in 0..(cfg.localSize - 1) |->
                     IF l \in movers THEN INVALID_GROUPID ELSE grp[g].group_id[l]]]

\* lines 974-984: the work-item in the middle of each unit merges its entry
\* into the entry at the unit's start when both are of the same run; then
\* the barrier
RunMergeDown(g) ==
    /\ stage = "reduction"
    /\ AllAt(cfg, g, "down")
    /\ LET unitSize == grp[g].unit
           half == unitSize \div 2
           localEntry == RunLocalEntry(g, cfg.localSize, kds_src.nitems)
           movers == {l \in 0..(cfg.localSize - 1) :
                        /\ l % unitSize = half /\ l < localEntry
                        /\ grp[g].group_id[l] = grp[g].group_id[l - half]}
           r == RunMerged(g, movers, 0 - half)
       IN  /\ grp' = [grp EXCEPT ![g].l_datum = r.l_datum, ![g].group_id = r.group_id]
           /\ wk' = [w \in WorkItems(cfg) |->
                       IF w \in Members(cfg, g) THEN [wk[w] EXCEPT !.pc = "up"]
                       ELSE wk[w]]
    /\ UNCHANGED <<calcVars, sortVars, cfg, stage, status, krowmap, kds_src, kds_dst, g_hashslot>>

\* a round that has no merge to the upper unit
RunMergeUp_None(g) ==
    /\ stage = "reduction"
    /\ AllAt(cfg, g, "up")
    /\ grp' = [grp EXCEPT ![g].unit = 2 * @]
    /\ wk' = [w \in WorkItems(cfg) |->
                IF w \in Members(cfg, g)
                THEN [wk[w] EXCEPT !.pc = IF 2 * grp[g].unit <= cfg.localSize
                                          THEN "down" ELSE "store"]
                ELSE wk[w]]
    /\ UNCHANGED <<calcVars, sortVars, cfg, stage, status, krowmap, kds_src, kds_dst, g_hashslot>>

\* lines 986-998: the work-item in the middle of each unit, if its entry is
\* still valid, merges it into the entry at the start of the next unit
\* when that is inside localEntry and of the same run; then the barrier
\* and the next unitSize
RunMergeUp(g) ==
    /\ stage = "reduction"
    /\ AllAt(cfg, g, "up")
    /\ LET unitSize == grp[g].unit
           half == unitSize \div 2
           localEntry == RunLocalEntry(g, cfg.localSize, kds_src.nitems)
           movers == {l \in 0..(cfg.localSize - 1) :
                        /\ l % unitSize = half /\ l < localEntry
                        /\ grp[g].group_id[l] # INVALID_GROUPID
                        /\ l + half < localEntry
                        /\ grp[g].group_id[l] = grp[g].group_id[l + half]}
           r == RunMerged(g, movers, half)
       IN  /\ grp' = [grp EXCEPT ![g].l_datum = r.l_datum, ![g].group_id = r.group_id,
                                 ![g].unit = 2 * unitSize]
           /\ wk' = [w \in WorkItems(cfg) |->
                       IF w \in Members(cfg, g)
                       THEN [wk[w] EXCEPT !.pc = IF 2 * unitSize <= cfg.localSize
                                                 THEN "down" ELSE "store"]
                       ELSE wk[w]]
    /\ UNCHANGED <<calcVars, sortVars, cfg, stage, status, krowmap, kds_src, kds_dst, g_hashslot>>

RECURSIVE RunStoreAll(_, _, _, _)
\* lines 1001-1004: the stores of column a by the work-items of group g
\* whose local ids are in ls
RunStoreAll(g, ls, dst, a) ==
    IF ls = {} THEN dst
    ELSE LET l == CHOOSE v \in ls : \A u \in ls : v <= u
             w == g * cfg.localSize + l
         IN  RunStoreAll(g, ls \ {l},
                         gpupreagg_data_store(cfg, grp[g].l_datum[l], wk[w].errcode,
                                              dst, a, grp[g].base + wk[w].groupID).kds,
                         a)

\* lines 1000-1010: every work-item whose entry is still valid stores it to
\* row base + groupID; then the barrier and the next column
RunStore(g) ==
    /\ stage = "reduction"
    /\ AllAt(cfg, g, "store")
    /\ kds_dst' = RunStoreAll(g, {l \in 0..(cfg.localSize - 1) :
                                     grp[g].group_id[l] # INVALID_GROUPID},
                              kds_dst, grp[g].attnum)
    /\ grp' = [grp EXCEPT ![g].attnum = @ + 1]
    /\ wk' = [w \in WorkItems(cfg) |->
                IF w \in Members(cfg, g) THEN [wk[w] EXCEPT !.pc = "column"]
                ELSE wk[w]]
    /\ UNCHANGED <<calcVars, sortVars, cfg, stage, status, krowmap, kds_src, g_hashslot>>

\* lines 1011-1012: kern_writeback_error_status
RunWriteback(g) ==
    /\ stage = "reduction"
    /\ AllAt(cfg, g, "out")
    /\ wk' = [w \in WorkItems(cfg) |->
                IF w \in Members(cfg, g) THEN [wk[w] EXCEPT !.pc = "exit"] ELSE wk[w]]
    /\ IF status = StromError_Success /\ GroupErrors(cfg, g) # {}
       THEN \E e \in GroupErrors(cfg, g) : status' = e
       ELSE UNCHANGED status
    /\ UNCHANGED <<calcVars, sortVars, cfg, stage, krowmap, kds_src, kds_dst, g_hashslot, grp>>

NextRun ==
    \/ \E g \in WorkGroups(cfg) : RunStart(g)
    \/ \E g \in WorkGroups(cfg) : RunColumn(g)
    \/ \E g \in WorkGroups(cfg) : RunMergeDown(g)
    \/ \E g \in WorkGroups(cfg) : RunMergeUp(g)
    \/ \E g \in WorkGroups(cfg) : RunStore(g)
    \/ \E g \in WorkGroups(cfg) : RunWriteback(g)

SpecRun == InitRun /\ [][NextRun]_vars

\* the local positions of work-group g that have a row, the key at a
\* position, the number of the run a position is in, and the rows of a run
Seg(g) ==
    {j \in 0..(cfg.localSize - 1) : g * cfg.localSize + j < kds_src.nitems}
KeyAt(g, j) == ColOf(kds_src, cfg.rindex[g * cfg.localSize + j], 0)
RunId(g, j) == Cardinality({i \in 1..j : KeyAt(g, i) # KeyAt(g, i - 1)})
Runs(g) == {RunId(g, j) : j \in Seg(g)}
RunRows(g, k) ==
    {cfg.rindex[g * cfg.localSize + j] : j \in {i \in Seg(g) : RunId(g, i) = k}}
\* column a of the rows of run k of group g, merged
RunTotal(g, k, a) ==
    LET first == CHOOSE r \in RunRows(g, k) : \A q \in RunRows(g, k) : r <= q
    IN  MergeRows(ColOf(kds_src, first, a), RunRows(g, k) \ {first}, a)
\* the local ids of group g whose entry of l_data carries group_id k
Holders(g, k) == {l \in 0..(cfg.localSize - 1) : grp[g].group_id[l] = k}

\* C30: in the reduction over a sorted rindex a work-group reserves as
\* many rows of kds_dst as its rows form runs of equal keys; after the
\* rounds of pairwise merges exactly one work-item of each run still has a
\* valid group_id, its entry of l_data is the merge of all rows of the run
\* and its groupID is the run's number; and when the group is done row
\* base + groupID of kds_dst holds the run's key and merged aggregate
C30_OneRowPerRun ==
    \A g \in WorkGroups(cfg) :
        (stage = "reduction" /\ Seg(g) # {}) =>
            /\ (\A w \in Members(cfg, g) : wk[w].pc # "start") =>
                  grp[g].nitems = Cardinality(Runs(g))
            /\ AllAt(cfg, g, "store") =>
                  \A k \in Runs(g) :
                      /\ Cardinality(Holders(g, k)) = 1
                      /\ \A l \in Holders(g, k) :
                            /\ grp[g].l_datum[l] = RunTotal(g, k, grp[g].attnum)
                            /\ wk[g * cfg.localSize + l].groupID = k
            /\ (\A w \in Members(cfg, g) :
                    /\ wk[w].pc \in {"out", "exit"}
                    /\ wk[w].errcode = StromError_Success) =>
                  \A k \in Runs(g) :
                      /\ \A a \in AggCols(cfg) :
                            ColOf(kds_dst, grp[g].base + k, a) = RunTotal(g, k, a)
                      /\ \A r \in RunRows(g, k) :
                            ColOf(kds_dst, grp[g].base + k, 0) = ColOf(kds_src, r, 0)

\* a work-group of four work-items is about to store: its rows form two
\* runs or more, one of them of three rows or more, which took a merge to
\* the lower and a merge to the upper unit
C30_Witness ==
    /\ stage = "reduction"
    /\ \E g \in WorkGroups(cfg) :
          /\ AllAt(cfg, g, "store")
          /\ cfg.localSize = 4
          /\ Cardinality(Runs(g)) >= 2
          /\ \E k \in Runs(g) :
                /\ Cardinality(RunRows(g, k)) >= 3
                /\ k > 0


\* C31: after each kernel of the sort fallback (local sort, every
\* long-range step, merge) rindex[0..nrows) holds every row index
\* 0..nrows-1 exactly once, the kernel has read and written no entry of
\* rindex at nrows or above, and those entries are as they were
C31_RindexStaysPermutation ==
    srt.pc \in {"step", "merge", "done"} =>
        /\ {srt.rindex[i] : i \in 0..(srt.nrows - 1)} = 0..(srt.nrows - 1)
        /\ srt.touched \subseteq 0..(srt.nrows - 1)
        /\ \A i \in DOMAIN srt.rindex : i >= srt.nrows => srt.rindex[i] = -1

\* a long-range step has swapped entries of an rindex whose last partition
\* is not full
C31_Witness ==
    /\ srt.pc = "merge"
    /\ srt.nrows < SortRoom(srt.nrows, srt.localSize)
    /\ srt.touched # {}
    /\ \E i \in 0..(srt.nrows - 1) :
          srt.rindex[i] # i /\ srt.rindex[i] \div (2 * srt.localSize)
                                 # i \div (2 * srt.localSize)


(***************************************************************************)
(* gpupreagg_data_load and gpupreagg_data_store alone: one column of one   *)
(* row is loaded to an accumulator, which is then stored to the same       *)
(* column of another row                                                   *)
(***************************************************************************)
\* the widths a column's metadata can give: the three scalar widths, a
\* byte and a 16-byte value
ColumnWidths == {1, SizeofShort, SizeofInt, SizeofLong, 2 * SizeofLong}

\* the cells of a column of attlen bytes (of a width that is no scalar's,
\* the cells the narrowest scalar has)
CellsOf(attlen) ==
    IF attlen \in ScalarSizes THEN FoldDatums(attlen) ELSE FoldDatums(SizeofShort)

\* what the accumulator holds before the load: nothing yet, a 64-bit
\* value, a null
AccumsBefore ==
    {Garbage,
     [isnull |-> FALSE, val |-> MaxOf(SizeofLong)],
     [isnull |-> TRUE, val |-> FromInt(1, SizeofLong)]}

\* a batch of two rows and two columns, the second column a 16-bit one;
\* row 0 is the row loaded, row 1 the row stored to
DataInit ==
    \E attlen \in ColumnWidths, colidx \in 0..2 :
      \E cell \in CellsOf(attlen), other \in CellsOf(attlen), p \in AccumsBefore :
        \E e \in {StromError_Success, StromError_CpuReCheck} :
          LET c == [ncols |-> 2,
                    attlen |-> [a \in 0..1 |-> IF a = 0 THEN attlen ELSE SizeofShort]]
              side == [isnull |-> FALSE, val |-> FromInt(1, SizeofShort)]
              kds == [nitems |-> 2,
                      rows |-> [r \in 0..1 |->
                                  [a \in 0..1 |-> IF a = 1 THEN side
                                                  ELSE IF r = 0 THEN cell ELSE other]]]
          IN  calc = [pc |-> "load", c |-> c, colidx |-> colidx,
                      kds0 |-> kds, kds |-> kds,
                      pdatum0 |-> p, pdatum |-> p,
                      errcode0 |-> e, errcode |-> e, errcode1 |-> e]

\* gpupreagg_data_load of column colidx of row 0
DataLoad ==
    /\ calc.pc = "load"
    /\ LET r == gpupreagg_data_load(calc.c, calc.pdatum, calc.errcode, calc.kds,
                                    calc.colidx, 0)
       IN  calc' = [calc EXCEPT !.pc = "store", !.pdatum = r.datum,
                                !.errcode = r.errcode, !.errcode1 = r.errcode]

\* gpupreagg_data_store to column colidx of row 1
DataStore ==
    /\ calc.pc = "store"
    /\ LET r == gpupreagg_data_store(calc.c, calc.pdatum, calc.errcode, calc.kds,
                                     calc.colidx, 1)
       IN  calc' = [calc EXCEPT !.pc = "done", !.kds = r.kds, !.errcode = r.errcode]

InitData == DataInit /\ srt = SortIdle /\ PipeIdle
NextData ==
    \/ DataLoad /\ UNCHANGED <<sortVars, pipeVars>>
    \/ DataStore /\ UNCHANGED <<sortVars, pipeVars>>
SpecData == InitData /\ [][NextData]_vars

\* the column the helpers are called on is one they accept
Accepted ==
    /\ calc.colidx < calc.c.ncols
    /\ calc.c.attlen[calc.colidx] \in {2, 4, 8}

\* C33: gpupreagg_data_load and gpupreagg_data_store accept column
\* indexes below ncols of columns 2, 4 or 8 bytes wide.  On any other
\* column each raises DataStoreCorruption (through STROM_SET_ERROR, which
\* keeps an error that is already held), the load leaves the accumulator
\* and the store leaves the batch as they were.  On an accepted column
\* neither touches the error code, the load gives the cell's null flag and,
\* for a cell that is not null, its value, and the store of the loaded
\* accumulator writes the null flag and value of the cell that was loaded,
\* and nothing else of the batch
C33_LoadStoreWidthsAndRoundTrip ==
    calc.pc \in {"store", "done"} =>
        LET src == calc.kds0.rows[0][calc.colidx]
            raised == STROM_SET_ERROR(calc.errcode0, StromError_DataStoreCorruption)
        IN  IF Accepted
            THEN /\ calc.errcode = calc.errcode0
                 /\ calc.pdatum.isnull = src.isnull
                 /\ ~src.isnull =>
                       UnionRead(calc.pdatum.val, NDigits(calc.c.attlen[calc.colidx]))
                           = src.val
                 /\ calc.pc = "done" =>
                       /\ SameDatum(calc.kds.rows[1][calc.colidx], src)
                       /\ \A r \in 0..1, a \in 0..1 :
                             <<r, a>> # <<1, calc.colidx>> =>
                                 calc.kds.rows[r][a] = calc.kds0.rows[r][a]
                       /\ calc.kds.nitems = calc.kds0.nitems
            ELSE /\ calc.pdatum = calc.pdatum0
                 /\ calc.errcode1 = raised
                 /\ calc.errcode = raised
                 /\ calc.kds = calc.kds0

\* a 32-bit cell has gone through an accumulator that held a 64-bit value
\* to a row that held another value
C33_Witness ==
    /\ calc.pc = "done"
    /\ Accepted
    /\ calc.c.attlen[calc.colidx] = SizeofInt
    /\ calc.pdatum0 = [isnull |-> FALSE, val |-> MaxOf(SizeofLong)]
    /\ ~calc.kds0.rows[0][calc.colidx].isnull
    /\ calc.kds0.rows[1][calc.colidx] # calc.kds0.rows[0][calc.colidx]
    /\ calc.kds.rows[1][calc.colidx] = calc.kds0.rows[0][calc.colidx]


\* the work-items that write a row of the stage's destination: in
\* preparation those with a row that passed the out of range check, in
\* local reduction the owners past the capacity check (they move the
\* grouping keys and store the aggregates), in global reduction the owners
\* with a row past the capacity check (they write the row map)
Writers ==
    CASE stage = "preparation" ->
            {w \in WorkItems(cfg) :
                /\ wk[w].pc \in {"out", "exit"}
                /\ wk[w].errcode # StromError_DataStoreNoSpace
                /\ wk[w].kds_index < cfg.nitems_in}
      [] stage = "local_reduction" ->
            {w \in WorkItems(cfg) :
                /\ wk[w].pc \in {"column", "merge", "bar3"}
                /\ LocalIsOwner(w)}
      [] stage = "global_reduction" ->
            {w \in WorkItems(cfg) :
                /\ wk[w].pc = "column"
                /\ w < kds_dst.nitems
                /\ GlobalIsOwner(w)}
      [] OTHER -> {}

\* the row a writer writes, and the capacity of what it writes to
WrittenRow(w) ==
    IF stage = "preparation" THEN PrepDestIndex(get_group_id(cfg, w), w)
    ELSE wk[w].dest_index
Capacity == IF stage = "preparation" THEN cfg.src_nrooms ELSE cfg.dst_nrooms

\* C32: every destination index a stage writes is inside capacity,
\* whether or not a work-group has met a capacity error: preparation
\* projects only to rows below nrooms of kds_src, local reduction moves
\* and stores only to rows below nrooms of kds_dst, and global reduction
\* writes only entries of the row map below nrooms
C32_WritesInsideCapacity ==
    \A w \in Writers : WrittenRow(w) < Capacity

\* in local reduction one work-group has left with the capacity error
\* while an owner of another work-group is about to store to the last row
\* of kds_dst, whose grouping key it has moved there
C32_Witness ==
    /\ stage = "local_reduction"
    /\ \E g \in WorkGroups(cfg) : LeftForNoSpace(g)
    /\ \E w \in Writers :
          /\ WrittenRow(w) = cfg.dst_nrooms - 1
          /\ wk[w].pc = "bar3"
          /\ kds_dst.rows[WrittenRow(w)] # NoRow(cfg)

====
